---- MODULE Spec2Model ----
(***************************************************************************)
(* Model of the document-reconstruction pipeline of mineru_vietocr:        *)
(*   - page_model_info_to_page_info / result_to_middle_json                *)
(*     (src/mineru/backend/pipeline/model_json_to_middle_json.py)          *)
(*   - TextRecognizer.__call__                                             *)
(*     (src/mineru/model/ocr/paddleocr2pytorch/tools/infer/predict_rec.py) *)
(*   - TextRegionCropper.crop_region / process_task / crop_all_regions     *)
(*     (src/crop_text_regions.py)                                          *)
(*   - the handler of POST /process_pdf/ (src/app.py, src/API.py)          *)
(*                                                                         *)
(* Units.  Coordinates are integer pixels.  Confidences are integers in    *)
(* units of 1/10000 (5000 is 0.5).  page.get_size() is in tenths of a      *)
(* point (5954 is 595.4).  A ratio is a pair <<num, den>> with den > 0.    *)
(* A Python dict key that is absent is the value NoImg / NoRef.            *)
(***************************************************************************)
EXTENDS Integers, Sequences, FiniteSets, TLC

\* ------------------------------------------------------------------ bounds
MaxPages == 2
MaxSpans == 2
MaxCrops == 3

\* ----------------------------------------------------------------- helpers
Max2(a, b) == IF a >= b THEN a ELSE b
Min2(a, b) == IF a <= b THEN a ELSE b

SeqToSet(s) == {s[i] : i \in DOMAIN s}

RECURSIVE FlattenSeq(_)
FlattenSeq(ss) ==
    IF ss = <<>> THEN <<>> ELSE Head(ss) \o FlattenSeq(Tail(ss))

RECURSIVE SumSeq(_)
SumSeq(s) ==
    IF s = <<>> THEN 0 ELSE Head(s) + SumSeq(Tail(s))

\* All subsequences of s (order kept) with at most n elements.
RECURSIVE SubSeqsUpTo(_, _)
SubSeqsUpTo(s, n) ==
    IF s = <<>> \/ n = 0 THEN {<<>>}
    ELSE SubSeqsUpTo(Tail(s), n)
         \cup {<<Head(s)>> \o t : t \in SubSeqsUpTo(Tail(s), n - 1)}

\* ---------------------------------------------------------------- geometry
NoImg == "no_np_img"
NoRef == "no_group"

BboxArea(b) == (b[3] - b[1]) * (b[4] - b[2])

OverlapArea(a, b) ==
    LET x_left == Max2(a[1], b[1])
        y_top == Max2(a[2], b[2])
        x_right == Min2(a[3], b[3])
        y_bottom == Min2(a[4], b[4])
    IN  IF x_right < x_left \/ y_bottom < y_top THEN 0
        ELSE (x_right - x_left) * (y_bottom - y_top)

\* intersection area / area of bbox1, 0 when bbox1 is empty
calculate_overlap_area_in_bbox1_area_ratio(bbox1, bbox2) ==
    IF BboxArea(bbox1) = 0 THEN <<0, 1>>
    ELSE <<OverlapArea(bbox1, bbox2), BboxArea(bbox1)>>

RatioGT(r, num, den) == r[1] * den > num * r[2]
RatioGE(r, num, den) == r[1] * den >= num * r[2]

UnionBbox(a, b) ==
    <<Min2(a[1], b[1]), Min2(a[2], b[2]), Max2(a[3], b[3]), Max2(a[4], b[4])>>

RECURSIVE UnionBboxes(_, _)
UnionBboxes(bs, dflt) ==
    IF bs = <<>> THEN dflt
    ELSE IF Len(bs) = 1 THEN bs[1]
    ELSE UnionBbox(Head(bs), UnionBboxes(Tail(bs), dflt))

\* int(x) of a non-negative float given in tenths
IntOfTenths(t) == t \div 10

\* ------------------------------------------------- stage 1: classification
\* A detected block as the MagicModel getters and process_groups hand it over:
\* [id, bbox, score, group_id].  A box as prepare_block_bboxes emits it carries
\* its type as well.
TypedBoxes(blocks, t) ==
    [i \in DOMAIN blocks |->
        [id |-> blocks[i].id, bbox |-> blocks[i].bbox, type |-> t,
         group_id |-> blocks[i].group_id, score |-> blocks[i].score]]

span_in_block_list(block, spans) ==
    SelectSeq(spans, LAMBDA span :
        /\ span.type = "text"
        /\ RatioGT(calculate_overlap_area_in_bbox1_area_ratio(span.bbox, block.bbox), 7, 10))

should_add_to_text_blocks(block, spans, ocr_enable) ==
    /\ ocr_enable
    /\ LET sl == span_in_block_list(block, spans)
           spans_area == SumSeq([i \in DOMAIN sl |-> BboxArea(sl[i].bbox)])
           block_area == BboxArea(block.bbox)
       IN  /\ Len(sl) > 0
           /\ block_area > 0
           /\ spans_area * 100 > 25 * block_area

\* text_blocks after the maybe-text loop: reclassified blocks lose group_id
ClassifiedTextBlocks(pmi, ocr_enable) ==
    LET moved == SelectSeq(pmi.maybe_text_image_blocks, LAMBDA b :
                     should_add_to_text_blocks(b, pmi.spans, ocr_enable))
    IN  pmi.text_blocks \o [i \in DOMAIN moved |-> [moved[i] EXCEPT !.group_id = NoRef]]

ClassifiedImgBodyBlocks(pmi, ocr_enable) ==
    pmi.img_body_blocks \o
    SelectSeq(pmi.maybe_text_image_blocks, LAMBDA b :
        ~should_add_to_text_blocks(b, pmi.spans, ocr_enable))

\* interline_equation_blocks is emptied when formula recognition is enabled
EffectiveEquationBlocks(pmi, formula_enabled) ==
    IF formula_enabled THEN <<>> ELSE pmi.interline_equation_blocks

\* spans after the block-derived interline-equation spans were appended; the new
\* dict objects get identities (ids) apart from those of the input spans
SpansWithEquationBlocks(pmi, formula_enabled) ==
    LET eq == EffectiveEquationBlocks(pmi, formula_enabled)
    IN  pmi.spans \o
        [i \in DOMAIN eq |->
            [id |-> 100 + eq[i].id, type |-> "interline_equation",
             score |-> eq[i].score, bbox |-> eq[i].bbox, content |-> "",
             np_img |-> NoImg]]

\* ------------------------------------------------- stage 2: box preparation
\* faulty variant: the footnote boxes are entered among the content boxes once more
prepare_block_bboxes_refoot(img_body, img_caption, img_footnote, table_body, table_caption, table_footnote, discarded, text, title, equations) ==
    [all_bboxes |->
        TypedBoxes(img_body, "image_body") \o TypedBoxes(img_caption, "image_caption")
        \o TypedBoxes(img_footnote, "image_footnote")
        \o TypedBoxes(table_body, "table_body") \o TypedBoxes(table_caption, "table_caption")
        \o TypedBoxes(table_footnote, "table_footnote")
        \o TypedBoxes(text, "text") \o TypedBoxes(title, "title")
        \o TypedBoxes(equations, "interline_equation")
        \o TypedBoxes(img_footnote, "image_footnote")
        \o TypedBoxes(table_footnote, "table_footnote"),
     all_discarded_blocks |-> TypedBoxes(discarded, "discarded"),
     footnote_blocks |->
        TypedBoxes(img_footnote, "image_footnote")
        \o TypedBoxes(table_footnote, "table_footnote")]

\* prepare_block_bboxes: content boxes in first-seen order, discarded regions
\* passed through, footnote boxes tracked apart.
prepare_block_bboxes(img_body, img_caption, img_footnote, table_body, table_caption, table_footnote, discarded, text, title, equations) ==
    [all_bboxes |->
        TypedBoxes(img_body, "image_body") \o TypedBoxes(img_caption, "image_caption")
        \o TypedBoxes(img_footnote, "image_footnote")
        \o TypedBoxes(table_body, "table_body") \o TypedBoxes(table_caption, "table_caption")
        \o TypedBoxes(table_footnote, "table_footnote")
        \o TypedBoxes(text, "text") \o TypedBoxes(title, "title")
        \o TypedBoxes(equations, "interline_equation"),
     all_discarded_blocks |-> TypedBoxes(discarded, "discarded"),
     footnote_blocks |->
        TypedBoxes(img_footnote, "image_footnote")
        \o TypedBoxes(table_footnote, "table_footnote")]

PreparedBoxes(pmi, ocr_enable, formula_enabled) ==
    LET eq == EffectiveEquationBlocks(pmi, formula_enabled)
    IN  prepare_block_bboxes(
            ClassifiedImgBodyBlocks(pmi, ocr_enable), pmi.img_caption_blocks,
            pmi.img_footnote_blocks, pmi.table_body_blocks, pmi.table_caption_blocks,
            pmi.table_footnote_blocks, pmi.discarded_blocks,
            ClassifiedTextBlocks(pmi, ocr_enable), pmi.title_blocks,
            IF Len(eq) > 0 THEN eq ELSE pmi.interline_equations)

\* --------------------------------------------------- stage 3: span resolver
TouchesAnyBox(span, boxes) ==
    \E i \in DOMAIN boxes : OverlapArea(span.bbox, boxes[i].bbox) > 0

\* drop the spans that intersect no content box and no discard box
remove_outside_spans(spans, all_bboxes, all_discarded_blocks) ==
    SelectSeq(spans, LAMBDA s :
        TouchesAnyBox(s, all_bboxes) \/ TouchesAnyBox(s, all_discarded_blocks))

LowConfOverlapPercent == 90
MinSpanOverlapPercent == 65

\* intersection over the smaller of the two areas, above percent/100
OverlapsAbove(a, b, percent) ==
    LET m == Min2(BboxArea(a), BboxArea(b))
    IN  m > 0 /\ OverlapArea(a, b) * 100 > percent * m

\* intersection over union, above percent/100
IouAbove(a, b, percent) ==
    LET i == OverlapArea(a, b)
        u == BboxArea(a) + BboxArea(b) - i
    IN  u > 0 /\ i * 100 > percent * u

\* t beats s: higher score; on equal scores the larger area; then the earlier one
BeatsByConfidence(t, s) ==
    \/ t.score > s.score
    \/ t.score = s.score /\ BboxArea(t.bbox) > BboxArea(s.bbox)
    \/ t.score = s.score /\ BboxArea(t.bbox) = BboxArea(s.bbox) /\ t.id < s.id

DroppedByConfidence(spans) ==
    SelectSeq(spans, LAMBDA s :
        \E i \in DOMAIN spans :
            /\ spans[i].id # s.id
            /\ IouAbove(s.bbox, spans[i].bbox, LowConfOverlapPercent)
            /\ BeatsByConfidence(spans[i], s))

remove_overlaps_low_confidence_spans(spans) ==
    LET dropped == DroppedByConfidence(spans)
    IN  [spans |-> SelectSeq(spans, LAMBDA s : s \notin SeqToSet(dropped)),
         dropped |-> dropped]

BeatsByArea(t, s) ==
    \/ BboxArea(t.bbox) > BboxArea(s.bbox)
    \/ BboxArea(t.bbox) = BboxArea(s.bbox) /\ t.id < s.id

DroppedBySpanOverlap(spans) ==
    SelectSeq(spans, LAMBDA s :
        \E i \in DOMAIN spans :
            /\ spans[i].id # s.id
            /\ spans[i].type = s.type
            /\ OverlapsAbove(s.bbox, spans[i].bbox, MinSpanOverlapPercent)
            /\ BeatsByArea(spans[i], s))

remove_overlaps_min_spans(spans) ==
    LET dropped == DroppedBySpanOverlap(spans)
    IN  [spans |-> SelectSeq(spans, LAMBDA s : s \notin SeqToSet(dropped)),
         dropped |-> dropped]

TextLayerScore == 10000

\* text-layer extraction (non-OCR mode): a box no text span covers gets the
\* text-layer items lying inside it as new text spans of fixed confidence
BoxCovered(box, spans) ==
    \E i \in DOMAIN spans :
        spans[i].type = "text" /\ OverlapArea(spans[i].bbox, box.bbox) > 0

txt_spans_extract(text_layer, spans, all_bboxes, all_discarded_blocks) ==
    LET boxes == all_bboxes \o all_discarded_blocks
        free == SelectSeq(boxes, LAMBDA b : ~BoxCovered(b, spans))
        items == SelectSeq(text_layer, LAMBDA t :
                     \E i \in DOMAIN free :
                         /\ BboxArea(t.bbox) > 0
                         /\ OverlapArea(t.bbox, free[i].bbox) = BboxArea(t.bbox))
    IN  spans \o
        [i \in DOMAIN items |->
            [id |-> 200 + items[i].id, type |-> "text", score |-> TextLayerScore,
             bbox |-> items[i].bbox, content |-> items[i].content, np_img |-> NoImg]]

\* faulty variant: the list returned by the min-span removal is not taken over
ResolvedSpansKeepingMinSpans(pmi, ocr_enable, formula_enabled) ==
    LET boxes == PreparedBoxes(pmi, ocr_enable, formula_enabled)
        s0 == SpansWithEquationBlocks(pmi, formula_enabled)
        s1 == remove_outside_spans(s0, boxes.all_bboxes, boxes.all_discarded_blocks)
        s2 == remove_overlaps_low_confidence_spans(s1).spans
    IN  IF ocr_enable THEN s2
        ELSE txt_spans_extract(pmi.text_layer, s2, boxes.all_bboxes,
                               boxes.all_discarded_blocks)

\* faulty variant: the list returned by the low-confidence removal is not taken
\* over, the later steps work on the list it was given
ResolvedSpansKeepingLowConf(pmi, ocr_enable, formula_enabled) ==
    LET boxes == PreparedBoxes(pmi, ocr_enable, formula_enabled)
        s0 == SpansWithEquationBlocks(pmi, formula_enabled)
        s1 == remove_outside_spans(s0, boxes.all_bboxes, boxes.all_discarded_blocks)
        s3 == remove_overlaps_min_spans(s1).spans
    IN  IF ocr_enable THEN s3
        ELSE txt_spans_extract(pmi.text_layer, s3, boxes.all_bboxes,
                               boxes.all_discarded_blocks)

ResolvedSpans(pmi, ocr_enable, formula_enabled) ==
    LET boxes == PreparedBoxes(pmi, ocr_enable, formula_enabled)
        s0 == SpansWithEquationBlocks(pmi, formula_enabled)
        s1 == remove_outside_spans(s0, boxes.all_bboxes, boxes.all_discarded_blocks)
        s2 == remove_overlaps_low_confidence_spans(s1).spans
        s3 == remove_overlaps_min_spans(s2).spans
    IN  IF ocr_enable THEN s3
        ELSE txt_spans_extract(pmi.text_layer, s3, boxes.all_bboxes,
                               boxes.all_discarded_blocks)

\* --------------------------------------------------- stage 4: span assigner
\* faulty variant: the content threshold one tenth too high
ContentRadioRaised == 5 + 1

\* thresholds of the two fill_spans_in_blocks calls, in tenths
DiscardRadio == 4
ContentRadio == 5

SpanFits(span, box, radio) ==
    RatioGE(calculate_overlap_area_in_bbox1_area_ratio(span.bbox, box.bbox), radio, 10)

\* index of the highest-overlap box whose ratio reaches the threshold (the first
\* of them on a tie), 0 when no box qualifies
BestBox(span, blocks, radio) ==
    LET ok == {i \in DOMAIN blocks : SpanFits(span, blocks[i], radio)}
        best == {i \in ok : \A j \in ok :
                    OverlapArea(span.bbox, blocks[i].bbox)
                        >= OverlapArea(span.bbox, blocks[j].bbox)}
    IN  IF ok = {} THEN 0 ELSE CHOOSE i \in best : \A j \in best : i <= j

fill_spans_in_blocks(blocks, spans, radio) ==
    [block_with_spans |->
        [i \in DOMAIN blocks |->
            [type |-> blocks[i].type, bbox |-> blocks[i].bbox, id |-> blocks[i].id,
             group_id |-> blocks[i].group_id,
             spans |-> SelectSeq(spans, LAMBDA s : BestBox(s, blocks, radio) = i)]],
     spans |-> SelectSeq(spans, LAMBDA s : BestBox(s, blocks, radio) = 0)]

\* faulty variant: the spans left over by the discard fill are not taken over, the
\* content fill sees every span again
DiscardFillKeepingSpans(all_discarded_blocks, spans) ==
    [block_with_spans |->
        fill_spans_in_blocks(all_discarded_blocks, spans, 4).block_with_spans,
     spans |-> spans]

\* discarded_block_with_spans, spans = fill_spans_in_blocks(all_discarded_blocks, spans, 0.4)
DiscardFill(all_discarded_blocks, spans) ==
    fill_spans_in_blocks(all_discarded_blocks, spans, DiscardRadio)

\* the crop writer stores a reference to the persisted crop on the span; when
\* the writer fails for the span, the span is left without a reference
cut_image_and_table(span, crop_fails) ==
    IF span.id \in crop_fails THEN [span EXCEPT !.content = ""]
    ELSE [span EXCEPT !.content = "crop_ref"]

Croppable(span) == span.type \in {"image", "table", "interline_equation"}

\* faulty variant: the loop ends at the first span whose crop fails
CropSpansStopAtFailure(spans, crop_fails) ==
    [i \in DOMAIN spans |->
        IF Croppable(spans[i])
           /\ \A j \in 1..(i - 1) : ~(Croppable(spans[j]) /\ spans[j].id \in crop_fails)
        THEN cut_image_and_table(spans[i], crop_fails) ELSE spans[i]]

CropSpans(spans, crop_fails) ==
    [i \in DOMAIN spans |->
        IF Croppable(spans[i]) THEN cut_image_and_table(spans[i], crop_fails)
        ELSE spans[i]]

\* block_with_spans, spans = fill_spans_in_blocks(all_bboxes, spans, 0.5)
ContentFill(all_bboxes, spans) ==
    fill_spans_in_blocks(all_bboxes, spans, ContentRadio)

\* ------------------------------------------------------ line grouping
SpanCenter2(s) == s.bbox[2] + s.bbox[4]
SpanHeight(s) == s.bbox[4] - s.bbox[2]

SpanBefore(a, b) ==
    \/ SpanCenter2(a) < SpanCenter2(b)
    \/ SpanCenter2(a) = SpanCenter2(b) /\ a.bbox[1] < b.bbox[1]
    \/ SpanCenter2(a) = SpanCenter2(b) /\ a.bbox[1] = b.bbox[1] /\ a.id < b.id

SpanLeftOf(a, b) ==
    \/ a.bbox[1] < b.bbox[1]
    \/ a.bbox[1] = b.bbox[1] /\ a.id < b.id

\* vertical centres within one line height of the line's first span
SameBand(first, s) ==
    LET d == SpanCenter2(s) - SpanCenter2(first)
    IN  (IF d < 0 THEN -d ELSE d) <= 2 * SpanHeight(first)

RECURSIVE GroupBands(_, _)
GroupBands(sorted, lines) ==
    IF sorted = <<>> THEN lines
    ELSE IF lines # <<>> /\ SameBand(lines[Len(lines)][1], Head(sorted))
         THEN GroupBands(Tail(sorted),
                         [lines EXCEPT ![Len(lines)] = Append(@, Head(sorted))])
         ELSE GroupBands(Tail(sorted), Append(lines, <<Head(sorted)>>))

merge_spans_to_line(spans) ==
    LET bands == GroupBands(SortSeq(spans, SpanBefore), <<>>)
    IN  [i \in DOMAIN bands |->
            LET ss == SortSeq(bands[i], SpanLeftOf)
            IN  [bbox |-> UnionBboxes([k \in DOMAIN ss |-> ss[k].bbox], <<0, 0, 0, 0>>),
                 spans |-> ss]]

\* ------------------------------------------------------ stage 5: block fixer
LeafBlock(bws, t) ==
    LET lines == merge_spans_to_line(bws.spans)
    IN  [type |-> t,
         bbox |-> UnionBboxes([k \in DOMAIN lines |-> lines[k].bbox], bws.bbox),
         id |-> bws.id, lines |-> lines, blocks |-> <<>>]

fix_discarded_block(discarded_block_with_spans) ==
    [i \in DOMAIN discarded_block_with_spans |->
        LeafBlock(discarded_block_with_spans[i], "discarded")]

GroupFamily(t) ==
    IF t \in {"image_body", "image_caption", "image_footnote"} THEN "image"
    ELSE IF t \in {"table_body", "table_caption", "table_footnote"} THEN "table"
    ELSE "none"

GroupBlock(body, block_with_spans) ==
    LET fam == GroupFamily(body.type)
        members(t) == SelectSeq(block_with_spans, LAMBDA b :
                          b.type = t /\ b.group_id = body.group_id)
        caps == members(IF fam = "image" THEN "image_caption" ELSE "table_caption")
        foots == members(IF fam = "image" THEN "image_footnote" ELSE "table_footnote")
        subs == <<LeafBlock(body, body.type)>>
                \o [k \in DOMAIN caps |-> LeafBlock(caps[k], caps[k].type)]
                \o [k \in DOMAIN foots |-> LeafBlock(foots[k], foots[k].type)]
    IN  [type |-> fam,
         bbox |-> UnionBboxes([k \in DOMAIN subs |-> subs[k].bbox], body.bbox),
         id |-> body.id, lines |-> <<>>, blocks |-> subs]

fix_block_spans(block_with_spans) ==
    FlattenSeq([i \in DOMAIN block_with_spans |->
        LET b == block_with_spans[i]
        IN  IF b.type \in {"text", "title", "interline_equation"}
            THEN <<LeafBlock(b, b.type)>>
            ELSE IF b.type \in {"image_body", "table_body"}
            THEN <<GroupBlock(b, block_with_spans)>>
            ELSE <<>>])

\* -------------------------------------------------- stage 6: reading order
HorizontallyOverlap(a, b) == a.bbox[1] < b.bbox[3] /\ b.bbox[1] < a.bbox[3]

\* a block that reaches over two blocks with disjoint x extents lies across
\* columns; it founds no column of its own
Bridging(i, blocks) ==
    \E j, k \in DOMAIN blocks :
        /\ j # i /\ k # i
        /\ HorizontallyOverlap(blocks[i], blocks[j])
        /\ HorizontallyOverlap(blocks[i], blocks[k])
        /\ ~HorizontallyOverlap(blocks[j], blocks[k])

\* the column of a block that lies in one column: the blocks of that kind
\* sharing x extent with it
ColumnOf(i, blocks) ==
    {i} \cup {j \in DOMAIN blocks :
                ~Bridging(j, blocks) /\ HorizontallyOverlap(blocks[i], blocks[j])}

Columns(blocks) == {ColumnOf(i, blocks) : i \in {j \in DOMAIN blocks : ~Bridging(j, blocks)}}

ColumnExtent(col, blocks) ==
    <<CHOOSE x \in {blocks[j].bbox[1] : j \in col} : \A j \in col : x <= blocks[j].bbox[1],
      CHOOSE x \in {blocks[j].bbox[3] : j \in col} : \A j \in col : x >= blocks[j].bbox[3]>>

\* width of the part of the block inside the column; at equal height it orders
\* the columns by the fraction of the block's area they contain
WidthInColumn(i, col, blocks) ==
    LET e == ColumnExtent(col, blocks)
    IN  Max2(0, Min2(blocks[i].bbox[3], e[2]) - Max2(blocks[i].bbox[1], e[1]))

\* a block across columns goes to the column holding the larger part of its
\* area, the leftmost of them on a tie
AssignedColumn(i, blocks) ==
    IF ~Bridging(i, blocks) THEN ColumnOf(i, blocks)
    ELSE IF Columns(blocks) = {} THEN {i}
    ELSE CHOOSE c \in Columns(blocks) :
            \A d \in Columns(blocks) :
                \/ WidthInColumn(i, c, blocks) > WidthInColumn(i, d, blocks)
                \/ /\ WidthInColumn(i, c, blocks) = WidthInColumn(i, d, blocks)
                   /\ ColumnExtent(c, blocks)[1] <= ColumnExtent(d, blocks)[1]

ColumnLeft(i, blocks) == ColumnExtent(AssignedColumn(i, blocks), blocks)[1]

\* the rank of a block: column left to right, then top y, then left x, then the
\* detection index for true ties
BlockRank(i, blocks) ==
    <<ColumnLeft(i, blocks), blocks[i].bbox[2], blocks[i].bbox[1], blocks[i].id>>

RankLess(r, q) ==
    \E k \in 1..4 : r[k] < q[k] /\ \A m \in 1..(k - 1) : r[m] = q[m]

sort_blocks_by_bbox(blocks, page_w, page_h, footnote_blocks) ==
    LET before(i, j) == RankLess(BlockRank(i, blocks), BlockRank(j, blocks))
        order == SortSeq([i \in DOMAIN blocks |-> i], before)
    IN  [k \in DOMAIN order |-> blocks[order[k]]]

\* faulty variant: the sort is skipped, the blocks stay in detection order
SortedBlocksUnsorted(fix_blocks, page_w, page_h, footnote_blocks) == fix_blocks

\* faulty variant: the first block of the reading order is lost
SortedBlocksBehead(fix_blocks, page_w, page_h, footnote_blocks) ==
    Tail(sort_blocks_by_bbox(fix_blocks, page_w, page_h, footnote_blocks))

\* sorted_blocks = sort_blocks_by_bbox(fix_blocks, page_w, page_h, footnote_blocks)
SortedBlocks(fix_blocks, page_w, page_h, footnote_blocks) ==
    sort_blocks_by_bbox(fix_blocks, page_w, page_h, footnote_blocks)

\* ------------------------------------------------------------ the page
\* faulty variant: the discarded blocks are put into the reading order as well
make_page_info_dict_mixed(blocks, page_id, page_w, page_h, discarded_blocks) ==
    [preproc_blocks |-> blocks \o discarded_blocks,
     page_idx |-> page_id,
     page_size |-> <<page_w, page_h>>,
     discarded_blocks |-> discarded_blocks]

\* faulty variant: page_idx counts pages from one
make_page_info_dict_one_based(blocks, page_id, page_w, page_h, discarded_blocks) ==
    [preproc_blocks |-> blocks,
     page_idx |-> page_id + 1,
     page_size |-> <<page_w, page_h>>,
     discarded_blocks |-> discarded_blocks]

make_page_info_dict(blocks, page_id, page_w, page_h, discarded_blocks) ==
    [preproc_blocks |-> blocks,
     page_idx |-> page_id,
     page_size |-> <<page_w, page_h>>,
     discarded_blocks |-> discarded_blocks]

NonePage == [is_none |-> TRUE]

\* scale = image_dict["scale"] raises KeyError
RaisesKeyError(pmi) == pmi.image_dict = "no_scale"

page_model_info_to_page_info(pmi, page_index, ocr_enable, formula_enabled) ==
    LET page_w == IntOfTenths(pmi.size[1])
        page_h == IntOfTenths(pmi.size[2])
        boxes == PreparedBoxes(pmi, ocr_enable, formula_enabled)
        spans == ResolvedSpans(pmi, ocr_enable, formula_enabled)
        dfill == DiscardFill(boxes.all_discarded_blocks, spans)
        fix_discarded_blocks == fix_discarded_block(dfill.block_with_spans)
        cfill == ContentFill(boxes.all_bboxes, CropSpans(dfill.spans, pmi.crop_fails))
        fix_blocks == fix_block_spans(cfill.block_with_spans)
        sorted_blocks == SortedBlocks(fix_blocks, page_w, page_h, boxes.footnote_blocks)
    IN  IF Len(boxes.all_bboxes) = 0 THEN NonePage
        ELSE make_page_info_dict(sorted_blocks, page_index, page_w, page_h,
                                 fix_discarded_blocks)

\* ------------------------------------------------ stage 7: deferred OCR
\* OcrConfidence.min_confidence
min_confidence == 5000

\* float(f"{ocr_score:.3f}"): three decimals, to the nearest
RoundTo3Decimals(score) == ((score + 5) \div 10) * 10

\* the blocks whose lines the deferred OCR step scans, in scan order
TextBlockList(page_info) ==
    FlattenSeq([i \in DOMAIN page_info.preproc_blocks |->
        LET block == page_info.preproc_blocks[i]
        IN  IF block.type \in {"table", "image"}
            THEN SelectSeq(block.blocks, LAMBDA sub_block :
                     sub_block.type \in {"image_caption", "image_footnote",
                                         "table_caption", "table_footnote"})
            ELSE IF block.type \in {"text", "title"} THEN <<block>>
            ELSE <<>>])
    \o page_info.discarded_blocks

BlockSpans(block) ==
    FlattenSeq([l \in DOMAIN block.lines |-> block.lines[l].spans])

\* the spans of the scanned blocks of page p, as (reference, span) in scan order;
\* a reference names the span object: its page and its identity on the page
ScannedSpans(pdf, p) ==
    LET ss == FlattenSeq([b \in DOMAIN TextBlockList(pdf[p]) |->
                  BlockSpans(TextBlockList(pdf[p])[b])])
    IN  [k \in DOMAIN ss |-> [ref |-> <<p, ss[k].id>>, span |-> ss[k]]]

\* 'np_img' in span, with span.pop('np_img') taking effect on the object at once:
\* an object met a second time is no longer pending
RECURSIVE CollectPending(_, _)
CollectPending(scanned, seen) ==
    IF scanned = <<>> THEN <<>>
    ELSE LET x == Head(scanned)
         IN  IF x.span.np_img # NoImg /\ x.ref \notin seen
             THEN <<x>> \o CollectPending(Tail(scanned), seen \cup {x.ref})
             ELSE CollectPending(Tail(scanned), seen)

CollectedSpans(pdf) ==
    CollectPending(FlattenSeq([p \in DOMAIN pdf |-> ScannedSpans(pdf, p)]), {})

NeedOcrList(pdf) ==
    LET c == CollectedSpans(pdf) IN [k \in DOMAIN c |-> c[k].ref]

ImgCropList(pdf) ==
    LET c == CollectedSpans(pdf) IN [k \in DOMAIN c |-> c[k].span.np_img]

\* apply F(page position, span) to every span object of the document
MapLines(lines, p, F(_, _)) ==
    [l \in DOMAIN lines |->
        [lines[l] EXCEPT !.spans = [k \in DOMAIN @ |-> F(p, @[k])]]]

MapBlocks(blocks, p, F(_, _)) ==
    [i \in DOMAIN blocks |->
        [type |-> blocks[i].type, bbox |-> blocks[i].bbox, id |-> blocks[i].id,
         lines |-> MapLines(blocks[i].lines, p, F),
         blocks |-> [j \in DOMAIN blocks[i].blocks |->
                        [blocks[i].blocks[j] EXCEPT !.lines = MapLines(@, p, F)]]]]

MapSpans(pdf, F(_, _)) ==
    [p \in DOMAIN pdf |->
        [pdf[p] EXCEPT !.preproc_blocks = MapBlocks(@, p, F),
                       !.discarded_blocks = MapBlocks(@, p, F)]]

\* the document after the collection loop popped np_img off the collected spans
PopCollected(pdf) ==
    LET need == SeqToSet(NeedOcrList(pdf))
    IN  MapSpans(pdf, LAMBDA p, span :
            IF <<p, span.id>> \in need THEN [span EXCEPT !.np_img = NoImg] ELSE span)

\* faulty variant: the assertion only asks for enough results
OcrCountsAtLeast(res, need) == Len(res) >= Len(need)

\* assert len(ocr_res_list) == len(need_ocr_list)
OcrCountsAgree(res, need) == Len(res) = Len(need)

\* faulty variant: the result is written back whatever its confidence
OcrWriteBackUngated(span, res) ==
    [span EXCEPT !.content = res[1], !.score = ((res[2] + 5) \div 10) * 10]

\* the body of the write-back loop for one span and its result
OcrWriteBack(span, res) ==
    IF res[2] > min_confidence
    THEN [span EXCEPT !.content = res[1], !.score = RoundTo3Decimals(res[2])]
    ELSE [span EXCEPT !.content = "", !.score = 0]

\* faulty variant: a span whose result is below the threshold is dropped from its line
ApplyOcrDropping(pdf, need, res) ==
    LET low(p, span) ==
            \E i \in DOMAIN need : need[i] = <<p, span.id>> /\ res[i][2] <= 5000
        keep(lines, p) ==
            [l \in DOMAIN lines |->
                [lines[l] EXCEPT !.spans = SelectSeq(@, LAMBDA sp : ~low(p, sp))]]
        done == MapSpans(pdf, LAMBDA p, span :
                    IF \E i \in DOMAIN need : need[i] = <<p, span.id>>
                    THEN [span EXCEPT !.content = "x"] ELSE span)
    IN  [p \in DOMAIN done |->
            [done[p] EXCEPT
                !.preproc_blocks = [i \in DOMAIN @ |->
                    [@[i] EXCEPT !.lines = keep(@, p)]],
                !.discarded_blocks = [i \in DOMAIN @ |->
                    [@[i] EXCEPT !.lines = keep(@, p)]]]]

\* faulty variant: the results are read from the end of the result list
ApplyOcrReversed(pdf, need, res) ==
    MapSpans(pdf, LAMBDA p, span :
        IF \E i \in DOMAIN need : need[i] = <<p, span.id>>
        THEN OcrWriteBack(span, res[Len(need) + 1
                                     - CHOOSE i \in DOMAIN need : need[i] = <<p, span.id>>])
        ELSE span)

ApplyOcr(pdf, need, res) ==
    MapSpans(pdf, LAMBDA p, span :
        IF \E i \in DOMAIN need : need[i] = <<p, span.id>>
        THEN OcrWriteBack(span, res[CHOOSE i \in DOMAIN need : need[i] = <<p, span.id>>])
        ELSE span)

\* ------------------------------------------------ stages 8, 9 and the tail
\* para_split adds the paragraph view of each page's blocks; it changes no
\* span or line ownership
para_split(pdf) ==
    [p \in DOMAIN pdf |->
        [preproc_blocks |-> pdf[p].preproc_blocks,
         page_idx |-> pdf[p].page_idx,
         page_size |-> pdf[p].page_size,
         discarded_blocks |-> pdf[p].discarded_blocks,
         para_blocks |-> pdf[p].preproc_blocks]]

\* what get_llm_aided_config() can return
LlmAidedConfigs == {"none", "no_title_aided", "title_disabled", "title_enabled"}

TitleAidedEnabled(cfg) == cfg = "title_enabled"

\* how the title-correction service can answer
TitleServiceOutcomes == {"ok", "fails"}

RetitleBlocks(blocks) ==
    [i \in DOMAIN blocks |->
        IF blocks[i].type # "title" THEN blocks[i]
        ELSE [blocks[i] EXCEPT !.lines =
                 [l \in DOMAIN blocks[i].lines |->
                     [bbox |-> blocks[i].lines[l].bbox,
                      spans |-> [k \in DOMAIN blocks[i].lines[l].spans |->
                                    [blocks[i].lines[l].spans[k] EXCEPT
                                        !.content = "corrected"]]]]]]

\* faulty variant: the titles are rewritten before the service has answered
llm_aided_title_partial(pdf, outcome) ==
    [p \in DOMAIN pdf |->
        [pdf[p] EXCEPT !.preproc_blocks = RetitleBlocks(pdf[p].preproc_blocks),
                       !.para_blocks = RetitleBlocks(pdf[p].para_blocks)]]

\* llm_aided_title rewrites the text of the title blocks in place; when the
\* service fails it logs and leaves the titles as they are
llm_aided_title(pdf, outcome) ==
    IF outcome = "fails" THEN pdf
    ELSE [p \in DOMAIN pdf |->
             [pdf[p] EXCEPT !.preproc_blocks = RetitleBlocks(pdf[p].preproc_blocks),
                            !.para_blocks = RetitleBlocks(pdf[p].para_blocks)]]

\* --------------------------------------------------------------- inputs
Blk(id, bbox, g) == [id |-> id, bbox |-> bbox, score |-> 9000, group_id |-> g]

Spn(id, t, bbox, score, content, img) ==
    [id |-> id, type |-> t, bbox |-> bbox, score |-> score, content |-> content,
     np_img |-> img]

BasePage ==
    [size |-> <<2005, 3009>>, discarded_blocks |-> <<>>, text_blocks |-> <<>>,
     title_blocks |-> <<>>, img_body_blocks |-> <<>>, img_caption_blocks |-> <<>>,
     img_footnote_blocks |-> <<>>, maybe_text_image_blocks |-> <<>>,
     table_body_blocks |-> <<>>, table_caption_blocks |-> <<>>,
     table_footnote_blocks |-> <<>>, interline_equation_blocks |-> <<>>,
     interline_equations |-> <<>>, spans |-> <<>>, text_layer |-> <<>>,
     image_dict |-> "ok", crop_fails |-> {}]

\* a page without detections
PgEmpty == BasePage

\* a page with a header region only
PgDiscardOnly ==
    [BasePage EXCEPT
        !.discarded_blocks = <<Blk(9, <<0, 0, 100, 10>>, NoRef)>>,
        !.spans = <<Spn(1, "text", <<0, 0, 40, 10>>, 8000, "", "crop_hdr")>>]

\* a text paragraph under a header, and a title the text layer must fill
PgText ==
    [BasePage EXCEPT
        !.size = <<2000, 3000>>,
        !.discarded_blocks = <<Blk(9, <<0, 0, 100, 10>>, NoRef)>>,
        !.text_blocks = <<Blk(1, <<0, 20, 100, 60>>, NoRef)>>,
        !.title_blocks = <<Blk(2, <<0, 70, 100, 80>>, NoRef)>>,
        !.spans = <<Spn(1, "text", <<0, 20, 50, 30>>, 8000, "", "crop_a"),
                    Spn(2, "text", <<0, 40, 50, 50>>, 9500, "kept", NoImg),
                    Spn(3, "text", <<0, 0, 40, 10>>, 8000, "", "crop_hdr")>>,
        !.text_layer = <<[id |-> 1, bbox |-> <<0, 70, 30, 80>>, content |-> "layer"]>>]

\* a figure with a caption and a label inside it, and a display equation whose
\* crop the crop writer fails to store
PgFigure ==
    [BasePage EXCEPT
        !.img_body_blocks = <<Blk(3, <<0, 0, 100, 50>>, 0)>>,
        !.img_caption_blocks = <<Blk(4, <<0, 52, 100, 60>>, 0)>>,
        !.interline_equation_blocks = <<Blk(5, <<0, 70, 100, 90>>, NoRef)>>,
        !.interline_equations = <<Blk(6, <<0, 100, 100, 120>>, NoRef)>>,
        !.crop_fails = {4},
        !.spans = <<Spn(1, "image", <<0, 0, 100, 50>>, 9000, "", NoImg),
                    Spn(2, "text", <<0, 52, 60, 60>>, 8000, "", "crop_cap"),
                    Spn(3, "text", <<10, 10, 30, 20>>, 8000, "", "crop_lbl"),
                    Spn(4, "interline_equation", <<0, 100, 100, 120>>, 9000, "x^2", NoImg)>>]

\* a page whose entry of images_list lacks the key "scale"
PgCorrupt == [PgText EXCEPT !.image_dict = "no_scale"]

DocPages == {PgEmpty, PgDiscardOnly, PgText, PgFigure, PgCorrupt}

\* what the recognition service can answer for one crop
OcrResults == {<<"lo", 4996>>, <<"eq", 5000>>, <<"hi", 9137>>}

\* the answers to a batch of n crops: n results, or a list one short or one long
OcrResponses(n) ==
    [1..n -> OcrResults]
    \cup {[i \in 1..m |-> <<"hi", 9137>>] : m \in {n - 1, n + 1}}

\* ---------------------------------------------------------------- state
VARIABLES
    model_list,      \* per-page model output, the input of result_to_middle_json
    ocr_enable,
    formula_enabled,
    pc,              \* where result_to_middle_json is
    pdf_info,        \* middle_json["pdf_info"]
    need_ocr_list,   \* references to the spans awaiting recognition
    img_crop_list,
    ocr_res_list,
    ocr_calls,       \* invocations of the recognition service
    stages,          \* the document-level stages run so far, in order
    error,           \* the exception that ended the call, if any
    returned,        \* middle_json was returned to the caller
    title_outcome,   \* how the title-correction service answered, if it was asked
    pdf_before_ocr   \* pdf_info as the page loop left it

docVars == <<model_list, ocr_enable, formula_enabled, pc, pdf_info, need_ocr_list,
             img_crop_list, ocr_res_list, ocr_calls, stages, error, returned,
             title_outcome, pdf_before_ocr>>

VARIABLES
    pg_pc,           \* where page_model_info_to_page_info is
    pg_in,           \* its arguments: pmi, page_index, ocr_enable, formula_enabled
    pg_boxes,        \* all_bboxes, all_discarded_blocks, footnote_blocks
    pg_spans,        \* the local variable spans
    pg_resolved,     \* spans as the span resolver left them
    pg_discarded,    \* discarded_block_with_spans
    pg_blocks,       \* block_with_spans
    pg_out           \* the value returned

pageVars == <<pg_pc, pg_in, pg_boxes, pg_spans, pg_resolved, pg_discarded, pg_blocks,
              pg_out>>

VARIABLES
    rec_pc,          \* where TextRecognizer.__call__ is
    img_list,        \* its argument
    rec_batch_num,   \* self.rec_batch_num
    blank_out,       \* what the predictor does on the all-zero placeholder image
    indices,         \* np.argsort of the aspect ratios
    beg_img_no,
    rec_res

recVars == <<rec_pc, img_list, rec_batch_num, blank_out, indices, beg_img_no, rec_res>>

VARIABLES
    region_pc,       \* where TextRegionCropper.crop_region is
    image_size,      \* image.size of its argument: <<width, height>>
    coordinates,     \* its argument coordinates
    crop_box         \* the box handed to image.crop, or NoBox when None is returned

regionVars == <<region_pc, image_size, coordinates, crop_box>>

VARIABLES
    cropper_pc,      \* where TextRegionCropper.crop_all_regions is
    tasks,           \* what load_label_studio_data returns
    task_i,          \* tasks done by the loop of crop_all_regions
    stats,           \* self.stats
    all_cropped_data,
    cropper_result   \* the value crop_all_regions returned

cropperVars == <<cropper_pc, tasks, task_i, stats, all_cropped_data, cropper_result>>

VARIABLES
    http_pc,         \* where the handler of POST /process_pdf/ is
    http_app,        \* the Flask application: "app" (src/app.py) or "API" (src/API.py)
    http_request,    \* the request
    http_raised,     \* the exception raised inside the try block, if any
    http_processed,  \* document processing was started
    http_status      \* status code of the response

httpVars == <<http_pc, http_app, http_request, http_raised, http_processed, http_status>>

toolVars == <<regionVars, cropperVars, httpVars>>

vars == <<docVars, pageVars, recVars, toolVars>>

\* the variables of a procedure that is not running
DocIdle ==
    /\ model_list = <<>> /\ ocr_enable = FALSE /\ formula_enabled = FALSE
    /\ pc = "idle" /\ pdf_info = <<>> /\ need_ocr_list = <<>> /\ img_crop_list = <<>>
    /\ ocr_res_list = <<>> /\ ocr_calls = 0 /\ stages = <<>>
    /\ error = [kind |-> "none", ocr_res_list |-> 0, need_ocr_list |-> 0]
    /\ returned = FALSE /\ title_outcome = "none" /\ pdf_before_ocr = <<>>

PageIdle ==
    /\ pg_pc = "idle" /\ pg_in = <<>> /\ pg_boxes = <<>> /\ pg_spans = <<>>
    /\ pg_resolved = <<>> /\ pg_discarded = <<>> /\ pg_blocks = <<>> /\ pg_out = <<>>

RecIdle ==
    /\ rec_pc = "idle" /\ img_list = <<>> /\ rec_batch_num = 0 /\ blank_out = <<>>
    /\ indices = <<>> /\ beg_img_no = 0 /\ rec_res = <<>>

NoBox == <<>>
NoStats ==
    [total_tasks |-> 0, processed_tasks |-> 0, skipped_tasks |-> 0,
     total_regions |-> 0, cropped_regions |-> 0, failed_crops |-> 0]
NoRaise == [kind |-> "none", code |-> 0]

RegionIdle ==
    /\ region_pc = "idle" /\ image_size = <<>> /\ coordinates = <<>> /\ crop_box = NoBox

CropperIdle ==
    /\ cropper_pc = "idle" /\ tasks = <<>> /\ task_i = 0 /\ stats = NoStats
    /\ all_cropped_data = <<>> /\ cropper_result = "none"

HttpIdle ==
    /\ http_pc = "idle" /\ http_app = "none" /\ http_request = <<>>
    /\ http_raised = NoRaise /\ http_processed = FALSE /\ http_status = 0

ToolIdle == RegionIdle /\ CropperIdle /\ HttpIdle

NoError == [kind |-> "none", ocr_res_list |-> 0, need_ocr_list |-> 0]

DocInit ==
    /\ model_list \in UNION {[1..n -> DocPages] : n \in 0..MaxPages}
    /\ ocr_enable \in BOOLEAN
    /\ formula_enabled \in BOOLEAN
    /\ pc = "pages"
    /\ pdf_info = <<>>
    /\ need_ocr_list = <<>>
    /\ img_crop_list = <<>>
    /\ ocr_res_list = <<>>
    /\ ocr_calls = 0
    /\ stages = <<>>
    /\ error = NoError
    /\ returned = FALSE
    /\ title_outcome = "none"
    /\ pdf_before_ocr = <<>>
    /\ PageIdle
    /\ RecIdle
    /\ ToolIdle

\* faulty variant: the empty page is built with width and height swapped
PageInfoForSwapped(page_index) ==
    LET pmi == model_list[page_index + 1]
        page_info == page_model_info_to_page_info(pmi, page_index, ocr_enable,
                                                  formula_enabled)
    IN  IF page_info = NonePage
        THEN make_page_info_dict(<<>>, page_index, IntOfTenths(pmi.size[2]),
                                 IntOfTenths(pmi.size[1]), <<>>)
        ELSE page_info

\* faulty variant: the page index is a counter of the pages finished so far,
\* shared by all pages, and not the page's own index
PageInfoForCounting(page_index) ==
    LET pmi == model_list[page_index + 1]
        done == Cardinality({i \in DOMAIN pdf_info : pdf_info[i] # [todo |-> TRUE]})
        page_info == page_model_info_to_page_info(pmi, done, ocr_enable, formula_enabled)
    IN  IF page_info = NonePage
        THEN make_page_info_dict(<<>>, done, IntOfTenths(pmi.size[1]),
                                 IntOfTenths(pmi.size[2]), <<>>)
        ELSE page_info

\* one iteration of the page loop
PageInfoFor(page_index) ==
    LET pmi == model_list[page_index + 1]
        page_info == page_model_info_to_page_info(pmi, page_index, ocr_enable,
                                                  formula_enabled)
    IN  IF page_info = NonePage
        THEN make_page_info_dict(<<>>, page_index, IntOfTenths(pmi.size[1]),
                                 IntOfTenths(pmi.size[2]), <<>>)
        ELSE page_info

\* faulty variant: the crops are collected and sent as soon as one page is done
PageLoopDoneAfterFirst == Len(pdf_info) >= Min2(1, Len(model_list))

\* the for loop over enumerate(model_list) has run out
PageLoopDone == Len(pdf_info) = Len(model_list)

ProcessPage ==
    /\ pc = "pages"
    /\ Len(pdf_info) < Len(model_list)
    /\ ~PageLoopDone
    /\ ~RaisesKeyError(model_list[Len(pdf_info) + 1])
    /\ pdf_info' = Append(pdf_info, PageInfoFor(Len(pdf_info)))
    /\ UNCHANGED <<model_list, ocr_enable, formula_enabled, title_outcome, pc, need_ocr_list,
                   img_crop_list, ocr_res_list, ocr_calls, stages, error, returned,
                   pdf_before_ocr,
                   pageVars, recVars, toolVars>>

\* page_model_info_to_page_info raises: nothing in the loop catches it, the call
\* ends with the exception
PageFails ==
    /\ pc = "pages"
    /\ Len(pdf_info) < Len(model_list)
    /\ ~PageLoopDone
    /\ RaisesKeyError(model_list[Len(pdf_info) + 1])
    /\ error' = [kind |-> "KeyError", ocr_res_list |-> 0, need_ocr_list |-> 0]
    /\ pc' = "failed"
    /\ UNCHANGED <<model_list, ocr_enable, formula_enabled, title_outcome, pdf_info, need_ocr_list,
                   img_crop_list, ocr_res_list, ocr_calls, stages, returned,
                   pdf_before_ocr,
                   pageVars, recVars, toolVars>>

\* the collection loops, after the page loop has ended
CollectCrops ==
    /\ pc = "pages"
    /\ PageLoopDone
    /\ need_ocr_list' = NeedOcrList(pdf_info)
    /\ img_crop_list' = ImgCropList(pdf_info)
    /\ pdf_info' = PopCollected(pdf_info)
    /\ pdf_before_ocr' = pdf_info
    /\ pc' = IF Len(ImgCropList(pdf_info)) > 0 THEN "ocr" ELSE "para_split"
    /\ UNCHANGED <<model_list, ocr_enable, formula_enabled, title_outcome, ocr_res_list, ocr_calls,
                   stages, error, returned,
                   pageVars, recVars, toolVars>>

\* ocr_model.ocr(img_crop_list, det=False)[0]
CallOcr ==
    /\ pc = "ocr"
    /\ \E res \in OcrResponses(Len(img_crop_list)) : ocr_res_list' = res
    /\ ocr_calls' = ocr_calls + 1
    /\ pc' = "ocr_returned"
    /\ UNCHANGED <<model_list, ocr_enable, formula_enabled, title_outcome, pdf_info, need_ocr_list,
                   img_crop_list, stages, error, returned, pdf_before_ocr,
                   pageVars, recVars, toolVars>>

\* the assertion fails: the call ends with the AssertionError
OcrCountMismatch ==
    /\ pc = "ocr_returned"
    /\ ~OcrCountsAgree(ocr_res_list, need_ocr_list)
    /\ error' = [kind |-> "AssertionError", ocr_res_list |-> Len(ocr_res_list),
                 need_ocr_list |-> Len(need_ocr_list)]
    /\ pc' = "failed"
    /\ UNCHANGED <<model_list, ocr_enable, formula_enabled, title_outcome, pdf_info, need_ocr_list,
                   img_crop_list, ocr_res_list, ocr_calls, stages, returned,
                   pdf_before_ocr,
                   pageVars, recVars, toolVars>>

WriteBack ==
    /\ pc = "ocr_returned"
    /\ OcrCountsAgree(ocr_res_list, need_ocr_list)
    /\ pdf_info' = ApplyOcr(pdf_info, need_ocr_list, ocr_res_list)
    /\ pc' = "para_split"
    /\ UNCHANGED <<model_list, ocr_enable, formula_enabled, title_outcome, need_ocr_list,
                   img_crop_list, ocr_res_list, ocr_calls, stages, error, returned,
                   pdf_before_ocr,
                   pageVars, recVars, toolVars>>

\* faulty variant: paragraph splitting may also start while the recognition
\* results are still to be written back
ParaSplitBeforeWriteBack ==
    /\ pc \in {"para_split", "ocr_returned"}
    /\ pdf_info' = para_split(pdf_info)
    /\ stages' = Append(stages, "para_split")
    /\ pc' = "merge_table"
    /\ UNCHANGED <<model_list, ocr_enable, formula_enabled, title_outcome, need_ocr_list,
                   img_crop_list, ocr_res_list, ocr_calls, error, returned,
                   pdf_before_ocr,
                   pageVars, recVars, toolVars>>

ParaSplit ==
    /\ pc = "para_split"
    /\ pdf_info' = para_split(pdf_info)
    /\ stages' = Append(stages, "para_split")
    /\ pc' = "merge_table"
    /\ UNCHANGED <<model_list, ocr_enable, formula_enabled, title_outcome, need_ocr_list,
                   img_crop_list, ocr_res_list, ocr_calls, error, returned,
                   pdf_before_ocr,
                   pageVars, recVars, toolVars>>

\* merge_table joins table fragments by their rows, which the model does not
\* represent: the blocks it keeps are left as they are
MergeTable ==
    /\ pc = "merge_table"
    /\ stages' = Append(stages, "merge_table")
    /\ pc' = "title"
    /\ UNCHANGED <<model_list, ocr_enable, formula_enabled, title_outcome, pdf_info, need_ocr_list,
                   img_crop_list, ocr_res_list, ocr_calls, error, returned,
                   pdf_before_ocr,
                   pageVars, recVars, toolVars>>

\* the optional title correction, by the configuration read at this point
TitleAided ==
    /\ pc = "title"
    /\ \E cfg \in LlmAidedConfigs, outcome \in TitleServiceOutcomes :
          IF TitleAidedEnabled(cfg)
          THEN /\ pdf_info' = llm_aided_title(pdf_info, outcome)
               /\ stages' = Append(stages, "llm_aided_title")
               /\ title_outcome' = outcome
          ELSE UNCHANGED <<pdf_info, stages, title_outcome>>
    /\ pc' = "close"
    /\ UNCHANGED <<model_list, ocr_enable, formula_enabled, need_ocr_list,
                   img_crop_list, ocr_res_list, ocr_calls, error, returned,
                   pdf_before_ocr,
                   pageVars, recVars, toolVars>>

\* pdf_doc.close() and return middle_json
CloseAndReturn ==
    /\ pc = "close"
    /\ stages' = Append(stages, "close")
    /\ returned' = TRUE
    /\ pc' = "done"
    /\ UNCHANGED <<model_list, ocr_enable, formula_enabled, title_outcome, pdf_info, need_ocr_list,
                   img_crop_list, ocr_res_list, ocr_calls, error, pdf_before_ocr,
                   pageVars, recVars, toolVars>>

DocNext ==
    \/ ProcessPage
    \/ PageFails
    \/ CollectCrops
    \/ CallOcr
    \/ OcrCountMismatch
    \/ WriteBack
    \/ ParaSplit
    \/ MergeTable
    \/ TitleAided
    \/ CloseAndReturn

\* ------------------------------- the page loop run as one task per page
\* The iterations of the page loop as independent tasks, finished in any order,
\* each putting its PageInfo at the place of its page index.
NotYet == [todo |-> TRUE]

ParInit ==
    /\ model_list \in UNION {[1..n -> DocPages \ {PgCorrupt}] : n \in 0..MaxPages}
    /\ ocr_enable \in BOOLEAN
    /\ formula_enabled \in BOOLEAN
    /\ pc = "par_pages"
    /\ pdf_info = [i \in DOMAIN model_list |-> NotYet]
    /\ need_ocr_list = <<>> /\ img_crop_list = <<>> /\ ocr_res_list = <<>>
    /\ ocr_calls = 0 /\ stages = <<>> /\ error = NoError /\ returned = FALSE
    /\ title_outcome = "none" /\ pdf_before_ocr = <<>>
    /\ PageIdle
    /\ RecIdle
    /\ ToolIdle

\* the task of some unfinished page finishes
ParProcessPage ==
    /\ pc = "par_pages"
    /\ \E i \in DOMAIN model_list :
          /\ pdf_info[i] = NotYet
          /\ pdf_info' = [pdf_info EXCEPT ![i] = PageInfoFor(i - 1)]
    /\ UNCHANGED <<model_list, ocr_enable, formula_enabled, title_outcome, pc,
                   need_ocr_list, img_crop_list, ocr_res_list, ocr_calls, stages, error,
                   returned, pdf_before_ocr, pageVars, recVars, toolVars>>

\* the barrier before stage 7: every page has its PageInfo
ParJoin ==
    /\ pc = "par_pages"
    /\ \A i \in DOMAIN model_list : pdf_info[i] # NotYet
    /\ pc' = "par_joined"
    /\ UNCHANGED <<model_list, ocr_enable, formula_enabled, title_outcome, pdf_info,
                   need_ocr_list, img_crop_list, ocr_res_list, ocr_calls, stages, error,
                   returned, pdf_before_ocr, pageVars, recVars, toolVars>>

ParNext ==
    \/ ParProcessPage
    \/ ParJoin

SpecPar == ParInit /\ [][ParNext]_vars

\* ------------------------------------ page_model_info_to_page_info, by stage
\* content and discard regions of the page layouts
BoxA == Blk(1, <<0, 100, 100, 150>>, NoRef)
BoxB == Blk(2, <<0, 151, 100, 200>>, NoRef)
BoxC == Blk(3, <<0, 120, 100, 180>>, NoRef)
BoxD == Blk(9, <<0, 80, 100, 104>>, NoRef)

LayoutNone == BasePage

LayoutDiscardOnly == [BasePage EXCEPT !.discarded_blocks = <<BoxD>>]

LayoutAB ==
    [BasePage EXCEPT
        !.discarded_blocks = <<BoxD>>,
        !.text_blocks = <<BoxA, BoxB>>,
        !.text_layer = <<[id |-> 1, bbox |-> <<0, 151, 40, 160>>, content |-> "layer"]>>]

LayoutABC == [LayoutAB EXCEPT !.title_blocks = <<BoxC>>]

\* two columns, detected right column first and bottom before top
LayoutColumns ==
    [BasePage EXCEPT
        !.text_blocks = <<Blk(1, <<60, 0, 110, 10>>, NoRef), Blk(2, <<0, 20, 50, 30>>, NoRef),
                          Blk(3, <<0, 0, 50, 10>>, NoRef)>>]

\* the two columns with a title across both of them, 50 wide in the left and
\* 40 wide in the right column
LayoutSpanning ==
    [LayoutColumns EXCEPT !.title_blocks = <<Blk(4, <<0, 12, 100, 18>>, NoRef)>>]

\* two regions detected at the same place: a true tie
LayoutTie ==
    [BasePage EXCEPT
        !.text_blocks = <<Blk(2, <<0, 100, 100, 150>>, NoRef)>>,
        !.title_blocks = <<Blk(1, <<0, 100, 100, 150>>, NoRef)>>]

\* a page whose entry of images_list lacks the key "scale"
LayoutCorrupt == [LayoutAB EXCEPT !.image_dict = "no_scale"]

\* a figure with caption and footnote, two image-like regions that may be text
\* (one 14 x 70 around span 3, one 10 x 65 around span 4), a display equation
\* as block and another as detected equation, under a header

LayoutFigure ==
    [BasePage EXCEPT
        !.discarded_blocks = <<BoxD>>,
        !.img_body_blocks = <<Blk(3, <<80, 100, 100, 150>>, 0)>>,
        !.img_caption_blocks = <<Blk(4, <<80, 151, 100, 160>>, 0)>>,
        !.img_footnote_blocks = <<Blk(5, <<80, 161, 100, 170>>, 0)>>,
        !.maybe_text_image_blocks = <<Blk(6, <<38, 100, 52, 170>>, 1),
                                      Blk(7, <<60, 130, 70, 195>>, 2)>>,
        !.interline_equation_blocks = <<Blk(8, <<0, 210, 100, 230>>, NoRef)>>,
        !.interline_equations = <<Blk(10, <<0, 240, 100, 260>>, NoRef)>>]

PageLayouts ==
    {LayoutNone, LayoutDiscardOnly, LayoutAB, LayoutABC, LayoutColumns, LayoutSpanning,
     LayoutTie, LayoutFigure, LayoutCorrupt}

\* the spans a page can come with, in detection order
SpanPool ==
    <<Spn(1, "text", <<0, 100, 10, 200>>, 8000, "", "crop_1"),
      Spn(2, "text", <<20, 101, 30, 201>>, 8000, "", "crop_2"),
      Spn(3, "text", <<40, 100, 50, 160>>, 9000, "", "crop_3"),
      Spn(4, "text", <<60, 130, 70, 190>>, 8000, "", "crop_4"),
      Spn(5, "text", <<0, 80, 10, 140>>, 8000, "", "crop_5"),
      Spn(6, "text", <<20, 81, 30, 141>>, 8000, "", "crop_6"),
      Spn(7, "image", <<80, 100, 100, 150>>, 9000, "", NoImg),
      Spn(8, "text", <<150, 250, 160, 260>>, 8000, "", "crop_8"),
      Spn(9, "text", <<40, 100, 50, 157>>, 4000, "", "crop_9"),
      Spn(10, "text", <<60, 130, 70, 193>>, 4000, "", "crop_10")>>

\* the spans whose crop the crop writer fails to store
CropFailures(l) == IF l.img_body_blocks # <<>> THEN {{}, {7}, {108}} ELSE {{}}

PageInputs ==
    {[pmi |-> [l EXCEPT !.spans = ss, !.crop_fails = cf], page_index |-> 0,
      ocr_enable |-> o, formula_enabled |-> f] :
        <<l, cf>> \in UNION {{<<x, y>> : y \in CropFailures(x)} : x \in PageLayouts},
        ss \in SubSeqsUpTo(SpanPool, MaxSpans), o \in BOOLEAN, f \in BOOLEAN}

PageInit ==
    /\ pg_in \in PageInputs
    /\ pg_pc = "prepare"
    /\ pg_boxes = <<>> /\ pg_spans = <<>> /\ pg_resolved = <<>>
    /\ pg_discarded = <<>> /\ pg_blocks = <<>> /\ pg_out = <<>>
    /\ DocIdle
    /\ RecIdle
    /\ ToolIdle

\* line 29 raises
PgRaise ==
    /\ pg_pc = "prepare"
    /\ RaisesKeyError(pg_in.pmi)
    /\ pg_pc' = "raised"
    /\ UNCHANGED <<pg_in, pg_boxes, pg_spans, pg_resolved, pg_discarded, pg_blocks,
                   pg_out, docVars, recVars, toolVars>>

\* lines 29-115: the getters, the maybe-text loop, the equation spans, the boxes
PgPrepare ==
    /\ pg_pc = "prepare"
    /\ ~RaisesKeyError(pg_in.pmi)
    /\ pg_boxes' = PreparedBoxes(pg_in.pmi, pg_in.ocr_enable, pg_in.formula_enabled)
    /\ pg_spans' = SpansWithEquationBlocks(pg_in.pmi, pg_in.formula_enabled)
    /\ pg_pc' = "resolve"
    /\ UNCHANGED <<pg_in, pg_resolved, pg_discarded, pg_blocks, pg_out, docVars, recVars, toolVars>>

\* lines 117-125
PgResolve ==
    /\ pg_pc = "resolve"
    /\ pg_spans' = ResolvedSpans(pg_in.pmi, pg_in.ocr_enable, pg_in.formula_enabled)
    /\ pg_resolved' = pg_spans'
    /\ pg_pc' = "fill_discarded"
    /\ UNCHANGED <<pg_in, pg_boxes, pg_discarded, pg_blocks, pg_out, docVars, recVars, toolVars>>

\* lines 127-130
PgFillDiscarded ==
    /\ pg_pc = "fill_discarded"
    /\ LET r == DiscardFill(pg_boxes.all_discarded_blocks, pg_spans)
       IN  /\ pg_discarded' = r.block_with_spans
           /\ pg_spans' = r.spans
    /\ pg_pc' = "check_boxes"
    /\ UNCHANGED <<pg_in, pg_boxes, pg_resolved, pg_blocks, pg_out, docVars, recVars, toolVars>>

\* lines 132-133
PgReturnNone ==
    /\ pg_pc = "check_boxes"
    /\ Len(pg_boxes.all_bboxes) = 0
    /\ pg_out' = NonePage
    /\ pg_pc' = "returned"
    /\ UNCHANGED <<pg_in, pg_boxes, pg_spans, pg_resolved, pg_discarded, pg_blocks,
                   docVars, recVars, toolVars>>

\* lines 135-141
PgCropAndFill ==
    /\ pg_pc = "check_boxes"
    /\ Len(pg_boxes.all_bboxes) # 0
    /\ LET r == ContentFill(pg_boxes.all_bboxes, CropSpans(pg_spans, pg_in.pmi.crop_fails))
       IN  /\ pg_blocks' = r.block_with_spans
           /\ pg_spans' = r.spans
    /\ pg_pc' = "fix"
    /\ UNCHANGED <<pg_in, pg_boxes, pg_resolved, pg_discarded, pg_out, docVars, recVars, toolVars>>

\* lines 143-149
PgFixSortReturn ==
    /\ pg_pc = "fix"
    /\ pg_out' = make_page_info_dict(
           SortedBlocks(fix_block_spans(pg_blocks), IntOfTenths(pg_in.pmi.size[1]),
                        IntOfTenths(pg_in.pmi.size[2]), pg_boxes.footnote_blocks),
           pg_in.page_index, IntOfTenths(pg_in.pmi.size[1]),
           IntOfTenths(pg_in.pmi.size[2]), fix_discarded_block(pg_discarded))
    /\ pg_pc' = "returned"
    /\ UNCHANGED <<pg_in, pg_boxes, pg_spans, pg_resolved, pg_discarded, pg_blocks,
                   docVars, recVars, toolVars>>

PageNext ==
    \/ PgRaise
    \/ PgPrepare
    \/ PgResolve
    \/ PgFillDiscarded
    \/ PgReturnNone
    \/ PgCropAndFill
    \/ PgFixSortReturn

SpecPage == PageInit /\ [][PageNext]_vars

\* the stages compose to the function the page loop calls
PageStagesAgree ==
    pg_pc = "returned" =>
        pg_out = page_model_info_to_page_info(pg_in.pmi, pg_in.page_index,
                                              pg_in.ocr_enable, pg_in.formula_enabled)

\* ------------------------------------------------ TextRecognizer.__call__
\* A probability is in units of 1/10000; NaN and None are told apart from numbers.
NanProb == -1
NoneProb == -2
FailedPredictionProb == 9000
MissingProbDefault == 9000
NanScoreDefault == 8000

\* What self.text_recognizer.predict does on an image: it returns (text, prob),
\* with prob possibly None or NaN, or it raises.
PredictOutcomes ==
    {[raises |-> FALSE, text |-> "abc", prob |-> 9500],
     [raises |-> FALSE, text |-> "xy", prob |-> 3000],
     [raises |-> FALSE, text |-> "n", prob |-> NanProb],
     [raises |-> FALSE, text |-> "p", prob |-> NoneProb],
     [raises |-> TRUE, text |-> "", prob |-> 0]}

\* An input crop: its shape and what the predictor does on its normalised image.
Img(h, w, out) == [h |-> h, w |-> w, out |-> out]

ImgPool ==
    {Img(32, 64, [raises |-> FALSE, text |-> "abc", prob |-> 9500]),
     Img(32, 320, [raises |-> FALSE, text |-> "xy", prob |-> 3000]),
     Img(16, 32, [raises |-> FALSE, text |-> "n", prob |-> NanProb]),
     Img(10, 90, [raises |-> FALSE, text |-> "p", prob |-> NoneProb]),
     Img(20, 10, [raises |-> TRUE, text |-> "", prob |-> 0]),
     Img(0, 12, [raises |-> FALSE, text |-> "never", prob |-> 9900]),
     Img(12, 0, [raises |-> FALSE, text |-> "never", prob |-> 9900])}

BatchNums == {1, 2, 6}

\* resize_norm_img returns None for an image without height or width; the caller
\* then predicts on an all-zero placeholder
NormIsNone(img) == img.h = 0 \/ img.w = 0

\* the try/except around predict, for one image of the batch
BatchResult(img, blank) ==
    LET out == IF NormIsNone(img) THEN blank ELSE img.out
    IN  IF out.raises THEN <<"", FailedPredictionProb>>
        ELSE IF out.prob = NoneProb THEN <<out.text, MissingProbDefault>>
        ELSE <<out.text, out.prob>>

\* the final loop over rec_res
FixNan(r) ==
    IF r[2] = NanProb THEN <<r[1], NanScoreDefault>>
    ELSE IF r[2] = NoneProb THEN <<r[1], NanScoreDefault>>
    ELSE r

\* width_list[i] <= width_list[j], the ratios being w/h, or 0 without height
RatioLeq(a, b) ==
    IF a.h = 0 THEN TRUE
    ELSE IF b.h = 0 THEN a.w = 0
    ELSE a.w * b.h <= b.w * a.h

\* the orders np.argsort can return: the permutations (of 1..n here) that sort
\* the ratios, equal ratios in any order
ArgSorts(imgs) ==
    {p \in [DOMAIN imgs -> DOMAIN imgs] :
        /\ \A i, j \in DOMAIN imgs : i # j => p[i] # p[j]
        /\ \A i \in DOMAIN imgs :
              i < Len(imgs) => RatioLeq(imgs[p[i]], imgs[p[i + 1]])}

\* faulty variant: the result is stored at the sorted position, the order not undone
ResultSlotSorted(idx, ino) == ino

\* the entry of rec_res that receives the result of the image taken at sorted
\* position ino: rec_res[indices[beg_img_no + rno]] = result
ResultSlot(idx, ino) == idx[ino]

\* one batch: the images at the sorted positions beg+1..end are predicted in
\* turn and each result is stored (beg counts from 0, as in the code; a later
\* store to the same entry wins)
AssignBatch(res, imgs, idx, beg, batch_num, blank) ==
    LET end_img_no == Min2(Len(imgs), beg + batch_num)
        hits(i) == {ino \in (beg + 1)..end_img_no : ResultSlot(idx, ino) = i}
        last(i) == CHOOSE ino \in hits(i) : \A k \in hits(i) : k <= ino
    IN  [i \in DOMAIN res |->
            IF hits(i) # {} THEN BatchResult(imgs[idx[last(i)]], blank) ELSE res[i]]

RecInit ==
    /\ img_list \in UNION {[1..n -> ImgPool] : n \in 0..MaxCrops}
    /\ rec_batch_num \in BatchNums
    /\ blank_out \in {o \in PredictOutcomes : o.text \in {"xy", ""}}
    /\ rec_pc = "sort"
    /\ indices = <<>>
    /\ beg_img_no = 0
    /\ rec_res = [i \in DOMAIN img_list |-> <<"", 0>>]
    /\ DocIdle
    /\ PageIdle
    /\ ToolIdle

\* lines 77-78
RecSort ==
    /\ rec_pc = "sort"
    /\ \E p \in ArgSorts(img_list) : indices' = p
    /\ rec_pc' = "batches"
    /\ UNCHANGED <<img_list, rec_batch_num, blank_out, beg_img_no, rec_res,
                   docVars, pageVars, toolVars>>

\* one iteration of the batch loop, lines 81-117
RecBatch ==
    /\ rec_pc = "batches"
    /\ beg_img_no < Len(img_list)
    /\ rec_res' = AssignBatch(rec_res, img_list, indices, beg_img_no, rec_batch_num,
                              blank_out)
    /\ beg_img_no' = beg_img_no + rec_batch_num
    /\ UNCHANGED <<rec_pc, img_list, rec_batch_num, blank_out, indices,
                   docVars, pageVars, toolVars>>

\* lines 119-128
RecFixAndReturn ==
    /\ rec_pc = "batches"
    /\ beg_img_no >= Len(img_list)
    /\ rec_res' = [i \in DOMAIN rec_res |-> FixNan(rec_res[i])]
    /\ rec_pc' = "returned"
    /\ UNCHANGED <<img_list, rec_batch_num, blank_out, indices, beg_img_no,
                   docVars, pageVars, toolVars>>

RecNext ==
    \/ RecSort
    \/ RecBatch
    \/ RecFixAndReturn

SpecRec == RecInit /\ [][RecNext]_vars

\* ------------------------------------- TextRegionCropper.crop_region
\* Coordinate values are floats given in tenths; a float that is NaN or
\* infinite, or a missing key, is a value int() or the lookup raises on.
MaxTasks == 2

\* int(v) of the float value v = num / den: truncation toward zero
TruncDiv(num, den) == IF num >= 0 THEN num \div den ELSE -((-num) \div den)

\* int(c * size / 100), c in tenths of a percent
PercentToPixel(c, size) == TruncDiv(c * size, 1000)

\* int(c), c in tenths of a pixel
IntOfPixel(c) == TruncDiv(c, 10)

\* x = max(0, min(x, img_width)); width = max(1, min(width, img_width - x))
ClampedBox(x, y, width, height, img_width, img_height) ==
    LET cx == Max2(0, Min2(x, img_width))
        cy == Max2(0, Min2(y, img_height))
        cw == Max2(1, Min2(width, img_width - cx))
        ch == Max2(1, Min2(height, img_height - cy))
    IN  <<cx, cy, cx + cw, cy + ch>>

\* the polygon branch: the bounding box of the pixel points, clamped
PolygonBox(points, img_width, img_height) ==
    LET px == {PercentToPixel(points[i][1], img_width) : i \in DOMAIN points}
        py == {PercentToPixel(points[i][2], img_height) : i \in DOMAIN points}
        min_x == CHOOSE v \in px : \A u \in px : v <= u
        max_x == CHOOSE v \in px : \A u \in px : v >= u
        min_y == CHOOSE v \in py : \A u \in py : v <= u
        max_y == CHOOSE v \in py : \A u \in py : v >= u
    IN  <<Max2(0, Min2(min_x, img_width)), Max2(0, Min2(min_y, img_height)),
          Max2(1, Min2(max_x, img_width)), Max2(1, Min2(max_y, img_height))>>

\* the box crop_region crops, NoBox when it returns None
crop_region(size, c) ==
    LET img_width == size[1]
        img_height == size[2]
    IN  IF ~c.convertible THEN NoBox
        ELSE IF c.type = "rectangle"
        THEN ClampedBox(PercentToPixel(c.x, img_width), PercentToPixel(c.y, img_height),
                        PercentToPixel(c.width, img_width),
                        PercentToPixel(c.height, img_height), img_width, img_height)
        ELSE IF c.type = "polygon"
        THEN IF Len(c.points) >= 3 THEN PolygonBox(c.points, img_width, img_height)
             ELSE NoBox
        ELSE IF c.type = "bbox"
        THEN ClampedBox(IntOfPixel(c.x), IntOfPixel(c.y), IntOfPixel(c.width),
                        IntOfPixel(c.height), img_width, img_height)
        ELSE NoBox

Rect(t, x, y, width, height) ==
    [type |-> t, x |-> x, y |-> y, width |-> width, height |-> height,
     points |-> <<>>, convertible |-> TRUE]

Polygon(points) ==
    [type |-> "polygon", x |-> 0, y |-> 0, width |-> 0, height |-> 0,
     points |-> points, convertible |-> TRUE]

ImageSizes == {<<1, 1>>, <<3, 2>>, <<100, 60>>}

CoordinateInputs ==
    {Rect(t, x, y, w, h) : t \in {"rectangle", "bbox"}, x \in {-100, 0, 505, 1000, 1500},
                           y \in {0, 1000}, w \in {-50, 0, 495, 2000}, h \in {0, 500}}
    \cup {Polygon(ps) : ps \in {<<<<0, 0>>, <<500, 0>>, <<500, 500>>>>,
                                <<<<1000, 0>>, <<1500, 500>>, <<1200, 1000>>>>,
                                <<<<100, 100>>, <<100, 100>>, <<100, 100>>>>,
                                <<<<0, 0>>, <<500, 500>>>>}}
    \cup {[Rect("rectangle", 0, 0, 500, 500) EXCEPT !.convertible = FALSE],
          Rect("circle", 0, 0, 500, 500)}

RegionInit ==
    /\ image_size \in ImageSizes
    /\ coordinates \in CoordinateInputs
    /\ region_pc = "called"
    /\ crop_box = NoBox
    /\ CropperIdle /\ HttpIdle
    /\ DocIdle /\ PageIdle /\ RecIdle

\* the branch for 'rectangle' or 'bbox' coordinates: image.crop on the clamped box
CropRectangle ==
    /\ region_pc = "called"
    /\ coordinates.convertible /\ coordinates.type \in {"rectangle", "bbox"}
    /\ crop_box' = crop_region(image_size, coordinates)
    /\ region_pc' = "returned"
    /\ UNCHANGED <<image_size, coordinates, cropperVars, httpVars, docVars, pageVars,
                   recVars>>

\* the branch for 'polygon' coordinates of three points or more
CropPolygon ==
    /\ region_pc = "called"
    /\ coordinates.convertible /\ coordinates.type = "polygon"
    /\ Len(coordinates.points) >= 3
    /\ crop_box' = crop_region(image_size, coordinates)
    /\ region_pc' = "returned"
    /\ UNCHANGED <<image_size, coordinates, cropperVars, httpVars, docVars, pageVars,
                   recVars>>

\* an exception inside the try block, a short polygon or an unknown type: None
CropReturnsNone ==
    /\ region_pc = "called"
    /\ crop_region(image_size, coordinates) = NoBox
    /\ crop_box' = NoBox
    /\ region_pc' = "returned"
    /\ UNCHANGED <<image_size, coordinates, cropperVars, httpVars, docVars, pageVars,
                   recVars>>

RegionNext ==
    \/ CropRectangle
    \/ CropPolygon
    \/ CropReturnsNone

SpecRegion == RegionInit /\ [][RegionNext]_vars

\* ---------------------------------- TextRegionCropper.crop_all_regions
\* A task as process_task meets it: how far the image can be got (no path in
\* the task, file not found, file unreadable, or opened with a size), and the
\* regions extract_text_regions gives, each with the outcome of saving its crop.
Task(image, size, regions) == [image |-> image, size |-> size, regions |-> regions]

Region(c, save_ok) == [coordinates |-> c, save_ok |-> save_ok]

TaskPool ==
    {Task("no_path", <<0, 0>>, <<>>),
     Task("not_found", <<0, 0>>, <<Region(Rect("rectangle", 0, 0, 500, 500), TRUE)>>),
     Task("unreadable", <<0, 0>>, <<Region(Rect("rectangle", 0, 0, 500, 500), TRUE)>>),
     Task("opened", <<100, 60>>, <<>>),
     Task("opened", <<100, 60>>,
          <<Region(Rect("rectangle", 0, 0, 500, 500), TRUE),
            Region(Rect("rectangle", 1000, 0, 500, 500), TRUE)>>),
     Task("opened", <<3, 2>>,
          <<Region([Rect("bbox", 0, 0, 10, 10) EXCEPT !.convertible = FALSE], TRUE),
            Region(Rect("bbox", 0, 0, 20, 10), FALSE),
            Region(Polygon(<<<<0, 0>>, <<500, 0>>, <<500, 500>>>>), TRUE)>>)}

\* the first four return statements of process_task
TaskSkipped(task) == task.image # "opened" \/ task.regions = <<>>

\* the region loop: the regions whose crop was made and saved
SavedRegions(task) ==
    SelectSeq(task.regions, LAMBDA r :
        crop_region(task.size, r.coordinates) # NoBox /\ r.save_ok)

\* self.stats after process_task(task, ...)
StatsAfterTask(st, task) ==
    IF TaskSkipped(task)
    THEN [st EXCEPT !.skipped_tasks = @ + 1]
    ELSE [st EXCEPT !.total_regions = @ + Len(task.regions),
                    !.cropped_regions = @ + Len(SavedRegions(task)),
                    !.failed_crops = @ + Len(task.regions) - Len(SavedRegions(task))]

\* the list process_task returns: the crop box stands for the saved file
process_task(task) ==
    IF TaskSkipped(task) THEN <<>>
    ELSE [k \in DOMAIN SavedRegions(task) |->
             crop_region(task.size, SavedRegions(task)[k].coordinates)]

CropperInit ==
    /\ tasks \in UNION {[1..n -> TaskPool] : n \in 0..MaxTasks}
    /\ cropper_pc = "load"
    /\ task_i = 0
    /\ stats = NoStats
    /\ all_cropped_data = <<>>
    /\ cropper_result = "none"
    /\ RegionIdle /\ HttpIdle
    /\ DocIdle /\ PageIdle /\ RecIdle

\* if not tasks: return False
CropperNoTasks ==
    /\ cropper_pc = "load"
    /\ tasks = <<>>
    /\ cropper_result' = "False"
    /\ cropper_pc' = "returned"
    /\ UNCHANGED <<tasks, task_i, stats, all_cropped_data, regionVars, httpVars, docVars,
                   pageVars, recVars>>

\* self.stats['total_tasks'] = len(tasks)
CropperCountTasks ==
    /\ cropper_pc = "load"
    /\ tasks # <<>>
    /\ stats' = [stats EXCEPT !.total_tasks = Len(tasks)]
    /\ cropper_pc' = "loop"
    /\ UNCHANGED <<tasks, task_i, all_cropped_data, cropper_result, regionVars, httpVars,
                   docVars, pageVars, recVars>>

\* one iteration of the loop over the tasks
CropperProcessTask ==
    /\ cropper_pc = "loop"
    /\ task_i < Len(tasks)
    /\ all_cropped_data' = all_cropped_data \o process_task(tasks[task_i + 1])
    /\ stats' = [StatsAfterTask(stats, tasks[task_i + 1]) EXCEPT !.processed_tasks = @ + 1]
    /\ task_i' = task_i + 1
    /\ UNCHANGED <<cropper_pc, tasks, cropper_result, regionVars, httpVars, docVars,
                   pageVars, recVars>>

\* write_annotation_files, print_statistics, return True
CropperReturnTrue ==
    /\ cropper_pc = "loop"
    /\ task_i = Len(tasks)
    /\ cropper_result' = "True"
    /\ cropper_pc' = "returned"
    /\ UNCHANGED <<tasks, task_i, stats, all_cropped_data, regionVars, httpVars, docVars,
                   pageVars, recVars>>

CropperNext ==
    \/ CropperNoTasks
    \/ CropperCountTasks
    \/ CropperProcessTask
    \/ CropperReturnTrue

SpecCropper == CropperInit /\ [][CropperNext]_vars

\* ----------------------------------------------- POST /process_pdf/
\* A file name is a stem and an extension ("" when the name has no dot); the
\* stem "non_ascii" stands for a stem without any ASCII letter or digit.
FileName(stem, ext) == [stem |-> stem, ext |-> ext]

\* werkzeug's secure_filename: a stem without ASCII characters vanishes with
\* its dot, and what is left is the bare extension as the whole name
secure_filename(name) ==
    IF name.stem = "non_ascii" THEN FileName(name.ext, "") ELSE name

\* str.lower() on the extension
LowerExt(ext) == IF ext = "PNG" THEN "png" ELSE ext

\* pdf_suffixes + image_suffixes of app.py, SUPPORTED_SUFFIXES of API.py
SupportedSuffixes == {"pdf", "png", "jpeg", "jpg", "webp", "gif"}

FileNames ==
    {FileName("", ""), FileName("report", "pdf"), FileName("scan", "PNG"),
     FileName("notes", "txt"), FileName("README", ""), FileName("non_ascii", "pdf")}

\* how reading, converting and processing the document end
ProcessingOutcomes == {"ok", "ValueError", "RuntimeError"}

HttpRequests ==
    {[has_file |-> hf, filename |-> fn, processing |-> po] :
        hf \in BOOLEAN, fn \in FileNames, po \in ProcessingOutcomes}

\* the three checks at the head of the try block; each calls abort(400, ...),
\* which raises an HTTPException
RequestRejected(req) ==
    \/ ~req.has_file
    \/ req.filename = FileName("", "")
    \/ LowerExt(secure_filename(req.filename).ext) \notin SupportedSuffixes

HttpInit ==
    /\ http_app \in {"app", "API"}
    /\ http_request \in HttpRequests
    /\ http_pc = "try"
    /\ http_raised = NoRaise
    /\ http_processed = FALSE
    /\ http_status = 0
    /\ RegionIdle /\ CropperIdle
    /\ DocIdle /\ PageIdle /\ RecIdle

\* abort(400, ...) inside the try block
HttpAbort400 ==
    /\ http_pc = "try"
    /\ RequestRejected(http_request)
    /\ http_raised' = [kind |-> "HTTPException", code |-> 400]
    /\ http_pc' = "except"
    /\ UNCHANGED <<http_app, http_request, http_processed, http_status, regionVars,
                   cropperVars, docVars, pageVars, recVars>>

\* file.read() and the document processing, returning the JSON answer
HttpProcessOk ==
    /\ http_pc = "try"
    /\ ~RequestRejected(http_request)
    /\ http_request.processing = "ok"
    /\ http_processed' = TRUE
    /\ http_status' = 200
    /\ http_pc' = "responded"
    /\ UNCHANGED <<http_app, http_request, http_raised, regionVars, cropperVars, docVars,
                   pageVars, recVars>>

\* the document processing raises
HttpProcessRaises ==
    /\ http_pc = "try"
    /\ ~RequestRejected(http_request)
    /\ http_request.processing # "ok"
    /\ http_processed' = TRUE
    /\ http_raised' = [kind |-> http_request.processing, code |-> 0]
    /\ http_pc' = "except"
    /\ UNCHANGED <<http_app, http_request, http_status, regionVars, cropperVars, docVars,
                   pageVars, recVars>>

\* the status the except clauses answer with: app.py has `except Exception`
\* alone, API.py has `except ValueError` before it
StatusOfExcept(application, raised) ==
    IF application = "API" /\ raised.kind = "ValueError" THEN 400 ELSE 500

\* the except clause that matches the exception calls abort
HttpExcept ==
    /\ http_pc = "except"
    /\ http_status' = StatusOfExcept(http_app, http_raised)
    /\ http_pc' = "responded"
    /\ UNCHANGED <<http_app, http_request, http_raised, http_processed, regionVars,
                   cropperVars, docVars, pageVars, recVars>>

HttpNext ==
    \/ HttpAbort400
    \/ HttpProcessOk
    \/ HttpProcessRaises
    \/ HttpExcept

SpecHttp == HttpInit /\ [][HttpNext]_vars

\* ================================================================ claims
\* every span object of a page, wherever a block, sub-block or line holds it
LinesOf(blocks) ==
    UNION {SeqToSet(blocks[i].lines) : i \in DOMAIN blocks}
    \cup UNION {UNION {SeqToSet(blocks[i].blocks[j].lines) :
                           j \in DOMAIN blocks[i].blocks} : i \in DOMAIN blocks}

PageSpans(page_info) ==
    UNION {SeqToSet(l.spans) :
              l \in LinesOf(page_info.preproc_blocks)
                    \cup LinesOf(page_info.discarded_blocks)}

SpansAt(pdf, ref) == {sp \in PageSpans(pdf[ref[1]]) : sp.id = ref[2]}

\* stage 7 is over and the recognition service was used
WrittenBack ==
    ocr_calls > 0 /\ pc \in {"para_split", "merge_table", "title", "close", "done"}

\* C1: a recognition result list whose length differs from the number of
\* dispatched crops ends the call with an error naming both counts; nothing is
\* written back, no later stage runs and no middle_json is returned.
C1_CountMismatchIsFatal ==
    /\ (ocr_calls > 0 /\ Len(ocr_res_list) # Len(need_ocr_list))
          => /\ pc \in {"ocr_returned", "failed"}
             /\ ~returned
             /\ stages = <<>>
             /\ pdf_info = PopCollected(pdf_before_ocr)
    /\ (pc = "failed" /\ ocr_calls > 0)
          => /\ error.kind = "AssertionError"
             /\ error.ocr_res_list = Len(ocr_res_list)
             /\ error.need_ocr_list = Len(need_ocr_list)
             /\ error.ocr_res_list # error.need_ocr_list
    /\ (pc = "ocr_returned" /\ Len(ocr_res_list) # Len(need_ocr_list))
          => ENABLED OcrCountMismatch /\ ~ENABLED WriteBack

C1_Witness ==
    pc = "failed" /\ Len(ocr_res_list) = Len(need_ocr_list) + 1 /\ Len(model_list) = 2

\* C2: after write-back, a dispatched span whose returned confidence is strictly
\* below the minimum-confidence threshold has content "" and score 0.0.
C2_LowConfidenceEmptied ==
    WrittenBack =>
        \A i \in DOMAIN need_ocr_list :
            ocr_res_list[i][2] < min_confidence =>
                /\ SpansAt(pdf_info, need_ocr_list[i]) # {}
                /\ \A sp \in SpansAt(pdf_info, need_ocr_list[i]) :
                      sp.content = "" /\ sp.score = 0

C2_Witness ==
    /\ WrittenBack
    /\ \E i \in DOMAIN need_ocr_list : ocr_res_list[i][2] < min_confidence

\* C3: after write-back, a dispatched span whose returned confidence is greater
\* than or equal to the threshold (equal included) has the recognized text as
\* content and the returned confidence as score.
C3_AtOrAboveThresholdKept ==
    WrittenBack =>
        \A i \in DOMAIN need_ocr_list :
            ocr_res_list[i][2] >= min_confidence =>
                \A sp \in SpansAt(pdf_info, need_ocr_list[i]) :
                    sp.content = ocr_res_list[i][1] /\ sp.score = ocr_res_list[i][2]

\* what the deferred OCR step may not touch: everything but the content, score
\* and pending-crop marker of the dispatched spans
OcrFrame(pdf) ==
    MapSpans(pdf, LAMBDA p, span :
        IF <<p, span.id>> \in SeqToSet(need_ocr_list)
        THEN [id |-> span.id, type |-> span.type, bbox |-> span.bbox]
        ELSE span)

\* C4: the deferred OCR step adds, removes and reorders no span, line or block;
\* only content, score and np_img of the dispatched spans change.
C4_OcrKeepsLayout ==
    (pc \in {"ocr", "ocr_returned", "para_split"} \/ (pc = "failed" /\ ocr_calls > 0)) =>
        OcrFrame(pdf_info) = OcrFrame(pdf_before_ocr)

C4_Witness ==
    /\ pc = "para_split" /\ ocr_calls = 1
    /\ \E i \in DOMAIN need_ocr_list : ocr_res_list[i][2] < min_confidence
    /\ \E i \in DOMAIN need_ocr_list : ocr_res_list[i][2] > min_confidence
    /\ pdf_info # pdf_before_ocr

\* the spans awaiting recognition in the blocks stage 7 reads: text and title
\* blocks, caption and footnote sub-blocks of images and tables, discarded blocks
PendingIn(blocks) ==
    {sp \in UNION {SeqToSet(l.spans) : l \in LinesOf(blocks)} : sp.np_img # NoImg}

TextBearing(page_info) ==
    LET pre == page_info.preproc_blocks
        subs(i) == SelectSeq(pre[i].blocks, LAMBDA b :
                       b.type \in {"image_caption", "image_footnote", "table_caption",
                                   "table_footnote"})
    IN  FlattenSeq([i \in DOMAIN pre |->
            IF pre[i].type \in {"text", "title"} THEN <<pre[i]>>
            ELSE IF pre[i].type \in {"image", "table"} THEN subs(i) ELSE <<>>])
        \o page_info.discarded_blocks

PendingRefs(pdf) ==
    UNION {{<<p, sp.id>> : sp \in PendingIn(TextBearing(pdf[p]))} : p \in DOMAIN pdf}

PendingCrops(pdf) ==
    UNION {{sp.np_img : sp \in PendingIn(TextBearing(pdf[p]))} : p \in DOMAIN pdf}

RecognizedAlone(img, blank) == FixNan(BatchResult(img, blank))

\* C6: TextRecognizer.__call__ returns a list as long as its input in which
\* entry i is the result for input crop i, whatever the order the crops were
\* sorted and batched in, also when predictions raise or crops are empty.
C6_ResultsAlignedWithInput ==
    rec_pc = "returned" =>
        /\ Len(rec_res) = Len(img_list)
        /\ \A i \in DOMAIN img_list : rec_res[i] = RecognizedAlone(img_list[i], blank_out)

C6_Witness ==
    /\ rec_pc = "returned" /\ Len(img_list) = 3 /\ rec_batch_num = 2
    /\ indices # <<1, 2, 3>>
    /\ \E i \in DOMAIN img_list : img_list[i].out.raises /\ ~NormIsNone(img_list[i])
    /\ \E i \in DOMAIN img_list : NormIsNone(img_list[i])
    /\ \E i, j \in DOMAIN rec_res : rec_res[i] # rec_res[j]

NoContentBoxes(pmi) ==
    PreparedBoxes(pmi, ocr_enable, formula_enabled).all_bboxes = <<>>

\* C7: a page without detections, or whose detections yield no content box, gets
\* a PageInfo with empty preproc_blocks and discarded_blocks and its own
\* page_idx and page_size, and the pages after it are processed as well.
C7_EmptyPageIsNoError ==
    /\ \A p \in DOMAIN pdf_info :
          NoContentBoxes(model_list[p]) =>
              /\ pdf_info[p].preproc_blocks = <<>>
              /\ pdf_info[p].discarded_blocks = <<>>
              /\ pdf_info[p].page_idx = p - 1
              /\ pdf_info[p].page_size = <<model_list[p].size[1] \div 10,
                                           model_list[p].size[2] \div 10>>
    /\ (pc # "pages" /\ error.kind # "KeyError") => Len(pdf_info) = Len(model_list)
    /\ error.kind = "AssertionError" => ocr_calls > 0
    /\ error.kind = "KeyError" => RaisesKeyError(model_list[Len(pdf_info) + 1])

C7_Witness ==
    /\ pc = "done" /\ Len(model_list) = 2
    /\ NoContentBoxes(model_list[1]) /\ model_list[1].discarded_blocks # <<>>
    /\ ~NoContentBoxes(model_list[2]) /\ pdf_info[2].preproc_blocks # <<>>

BlockIds(blocks) ==
    {blocks[i].id : i \in DOMAIN blocks}
    \cup UNION {{blocks[i].blocks[j].id : j \in DOMAIN blocks[i].blocks} :
                   i \in DOMAIN blocks}

BlockTypes(blocks) ==
    {blocks[i].type : i \in DOMAIN blocks}
    \cup UNION {{blocks[i].blocks[j].type : j \in DOMAIN blocks[i].blocks} :
                   i \in DOMAIN blocks}

\* C8: in every PageInfo, no block of discarded_blocks is in preproc_blocks, and
\* no block built from a discard box is in the reading order.
C8_DiscardedNotInReadingOrder ==
    \A p \in DOMAIN pdf_info :
        /\ SeqToSet(pdf_info[p].preproc_blocks)
              \cap SeqToSet(pdf_info[p].discarded_blocks) = {}
        /\ BlockIds(pdf_info[p].preproc_blocks)
              \cap {b.id : b \in SeqToSet(model_list[p].discarded_blocks)} = {}
        /\ "discarded" \notin BlockTypes(pdf_info[p].preproc_blocks)
        /\ BlockTypes(pdf_info[p].discarded_blocks) \subseteq {"discarded"}

C8_Witness ==
    /\ pc = "done"
    /\ \E p \in DOMAIN pdf_info :
          pdf_info[p].preproc_blocks # <<>> /\ pdf_info[p].discarded_blocks # <<>>

\* the places (list, block, position) that hold the span object id after assignment
OwnerSlots(id) ==
    LET slots(filled, tag) ==
            UNION {{<<tag, i, k>> : k \in {k \in DOMAIN filled[i].spans :
                                             filled[i].spans[k].id = id}} :
                   i \in DOMAIN filled}
    IN  slots(pg_discarded, "discarded") \cup slots(pg_blocks, "content")

\* the places of the returned PageInfo that hold the span object id
OutSlots(id) ==
    LET slots(blocks, tag) ==
            {<<tag, l, k>> : l \in LinesOf(blocks), k \in 1..MaxSpans + 2}
    IN  {x \in slots(pg_out.preproc_blocks, "preproc")
                   \cup slots(pg_out.discarded_blocks, "discarded") :
            x[3] \in DOMAIN x[2].spans /\ x[2].spans[x[3]].id = id}

QualifiesAt(sp, box, num) ==
    /\ BboxArea(sp.bbox) > 0
    /\ OverlapArea(sp.bbox, box.bbox) * 10 >= num * BboxArea(sp.bbox)

\* C9: after span assignment every span is owned by at most one block, content
\* blocks and discard blocks counted together.
C9_NoDoubleOwnership ==
    /\ \A sp \in SeqToSet(pg_resolved) : Cardinality(OwnerSlots(sp.id)) <= 1
    /\ (pg_pc = "returned" /\ pg_out # NonePage)
          => \A sp \in SeqToSet(pg_resolved) : Cardinality(OutSlots(sp.id)) <= 1

C9_Witness ==
    /\ pg_pc = "returned" /\ pg_out # NonePage
    /\ \E sp \in SeqToSet(pg_resolved) :
          /\ \E i \in DOMAIN pg_boxes.all_discarded_blocks :
                QualifiesAt(sp, pg_boxes.all_discarded_blocks[i], 4)
          /\ \E i \in DOMAIN pg_boxes.all_bboxes :
                QualifiesAt(sp, pg_boxes.all_bboxes[i], 5)
          /\ Cardinality(OwnerSlots(sp.id)) = 1
    /\ \E i \in DOMAIN pg_blocks : pg_blocks[i].spans # <<>>

\* sp sits in filled[i] and in no other entry of filled, where i is a box of
\* highest overlap among the qualifying boxes q
PlacedAtBest(sp, boxes, filled, q) ==
    \E i \in q :
        /\ \A j \in q : OverlapArea(sp.bbox, boxes[i].bbox)
                            >= OverlapArea(sp.bbox, boxes[j].bbox)
        /\ \E k \in DOMAIN filled[i].spans : filled[i].spans[k].id = sp.id
        /\ \A j \in DOMAIN filled : j # i =>
              \A k \in DOMAIN filled[j].spans : filled[j].spans[k].id # sp.id

Unplaced(sp, filled) ==
    \A j \in DOMAIN filled : \A k \in DOMAIN filled[j].spans : filled[j].spans[k].id # sp.id

\* C10: span assignment puts each span into the box of highest ratio
\* intersection-area(span, box) / area(span) among the boxes whose ratio is at
\* least the threshold (equality qualifies), 0.4 for the discard boxes and 0.5
\* for the content boxes that the remaining spans are offered to; a span that
\* qualifies nowhere is in no block.
C10_AssignedToBestQualifyingBox ==
    \A sp \in SeqToSet(pg_resolved) :
        LET dboxes == pg_boxes.all_discarded_blocks
            cboxes == pg_boxes.all_bboxes
            dq == {i \in DOMAIN dboxes : QualifiesAt(sp, dboxes[i], 4)}
            cq == {i \in DOMAIN cboxes : QualifiesAt(sp, cboxes[i], 5)}
        IN  /\ pg_pc \in {"check_boxes", "fix", "returned"}
                  => IF dq # {} THEN PlacedAtBest(sp, dboxes, pg_discarded, dq)
                     ELSE Unplaced(sp, pg_discarded)
            /\ (pg_pc = "fix" \/ (pg_pc = "returned" /\ pg_out # NonePage))
                  => IF dq = {} /\ cq # {} THEN PlacedAtBest(sp, cboxes, pg_blocks, cq)
                     ELSE Unplaced(sp, pg_blocks)

\* a span at exactly 0.5 of one content box and at 0.49 of another is in the first
C10_Witness ==
    /\ pg_pc = "returned" /\ pg_out # NonePage
    /\ \E sp \in SeqToSet(pg_resolved) :
          \E i, j \in DOMAIN pg_boxes.all_bboxes :
              /\ OverlapArea(sp.bbox, pg_boxes.all_bboxes[i].bbox) * 10
                    = 5 * BboxArea(sp.bbox)
              /\ OverlapArea(sp.bbox, pg_boxes.all_bboxes[j].bbox) * 100
                    = 49 * BboxArea(sp.bbox)
              /\ \E k \in DOMAIN pg_blocks[i].spans : pg_blocks[i].spans[k].id = sp.id

\* the page went through all of stages 1-6
PageProduced == pg_pc = "returned" /\ pg_out # NonePage

\* C11: the reading order is a strict total order over the page's content
\* blocks: preproc_blocks holds every fixed-up content block exactly once, and
\* the ranks of its blocks strictly increase, so no two blocks share a rank, a
\* true tie being decided by the detection index.
C11_ReadingOrderIsTotal ==
    PageProduced =>
        LET out == pg_out.preproc_blocks
            fixed == fix_block_spans(pg_blocks)
        IN  /\ Len(out) = Len(fixed)
            /\ \A i \in DOMAIN fixed :
                  Cardinality({k \in DOMAIN out : out[k] = fixed[i]}) = 1
            /\ \A i, j \in DOMAIN out :
                  i < j => RankLess(BlockRank(i, out), BlockRank(j, out))

\* two blocks at the same place, and the reading order still ranks them apart
C11_Witness ==
    /\ PageProduced
    /\ \E i, j \in DOMAIN pg_out.preproc_blocks :
          /\ i < j
          /\ pg_out.preproc_blocks[i].bbox = pg_out.preproc_blocks[j].bbox
          /\ pg_out.preproc_blocks[i].id < pg_out.preproc_blocks[j].id
    /\ pg_in.pmi.text_blocks[1].id > pg_in.pmi.title_blocks[1].id

\* C12: columns are emitted left to right and the blocks of a column top to
\* bottom: of two blocks lying each in one column, the one entirely to the left
\* of the other comes first, and of two sharing x extent the upper comes first.
C12_ColumnsLeftToRight ==
    PageProduced =>
        LET out == pg_out.preproc_blocks
        IN  \A i, j \in DOMAIN out :
                (~Bridging(i, out) /\ ~Bridging(j, out)) =>
                    /\ out[i].bbox[3] <= out[j].bbox[1] => i < j
                    /\ (HorizontallyOverlap(out[i], out[j])
                        /\ out[i].bbox[2] < out[j].bbox[2]) => i < j

\* (0,0,50,10) then (0,20,50,30) then (60,0,110,10), detected in another order
C12_Witness ==
    /\ PageProduced
    /\ [k \in DOMAIN pg_out.preproc_blocks |-> pg_out.preproc_blocks[k].bbox]
          = <<(<<0, 0, 50, 10>>), (<<0, 20, 50, 30>>), (<<60, 0, 110, 10>>)>>
    /\ [k \in DOMAIN pg_in.pmi.text_blocks |-> pg_in.pmi.text_blocks[k].bbox]
          = <<(<<60, 0, 110, 10>>), (<<0, 20, 50, 30>>), (<<0, 0, 50, 10>>)>>

\* the Box Preparer run on boxes it produced
PrepareAgain(boxes) ==
    LET of(t) == SelectSeq(boxes.all_bboxes, LAMBDA b : b.type = t)
    IN  prepare_block_bboxes(of("image_body"), of("image_caption"), of("image_footnote"),
                             of("table_body"), of("table_caption"), of("table_footnote"),
                             boxes.all_discarded_blocks, of("text"), of("title"),
                             of("interline_equation"))

SpansOverRegion(block, spans) ==
    SelectSeq(spans, LAMBDA span :
        /\ span.type = "text"
        /\ OverlapArea(span.bbox, block.bbox) * 100 > 70 * BboxArea(block.bbox))

\* both conditions as the region classifier is described
TextByDescription(block, spans) ==
    LET sl == SpansOverRegion(block, spans)
    IN  /\ Len(sl) > 0
        /\ SumSeq([i \in DOMAIN sl |-> BboxArea(sl[i].bbox)]) * 100
              > 25 * BboxArea(block.bbox)

BoxIdsOfType(t) ==
    {pg_boxes.all_bboxes[i].id :
        i \in {k \in DOMAIN pg_boxes.all_bboxes : pg_boxes.all_bboxes[k].type = t}}

\* C14: an image-like region becomes a text block exactly when (a) a text span
\* overlaps it with intersection area over the region's area > 0.70 and (b) the
\* summed area of those spans over the region's area > 0.25; otherwise it stays
\* an image body block; it is in exactly one of the two lists.
C14_ReclassifiedExactlyWhenBoth ==
    pg_pc \notin {"prepare", "raised"} =>
        \A b \in SeqToSet(pg_in.pmi.maybe_text_image_blocks) :
            /\ b.id \in BoxIdsOfType("text") <=> TextByDescription(b, pg_in.pmi.spans)
            /\ b.id \in BoxIdsOfType("image_body") <=> ~TextByDescription(b, pg_in.pmi.spans)

\* C15: a page failing in stages 1-6 is isolated: the only fatal error of a
\* document is the recognition count mismatch, the failing page gets a PageInfo
\* with empty content and every other page the PageInfo it has without the
\* failure.
C15_PageFailureIsolated ==
    /\ pc = "failed" => error.kind = "AssertionError"
    /\ pc = "pages" =>
          \A p \in DOMAIN pdf_info :
              pdf_info[p] =
                  IF RaisesKeyError(model_list[p])
                  THEN make_page_info_dict(<<>>, p - 1, IntOfTenths(model_list[p].size[1]),
                                           IntOfTenths(model_list[p].size[2]), <<>>)
                  ELSE PageInfoFor(p - 1)

TitleTexts(pdf) ==
    UNION {{sp.content : sp \in UNION {SeqToSet(l.spans) :
                l \in LinesOf(SelectSeq(pdf[p].preproc_blocks,
                                        LAMBDA b : b.type = "title"))}} : p \in DOMAIN pdf}

SpanIds(filled) ==
    [i \in DOMAIN filled |-> [k \in DOMAIN filled[i].spans |-> filled[i].spans[k].id]]

PageResolved == pg_pc \in {"fill_discarded", "check_boxes", "fix", "returned"}

\* the spans the low-confidence overlap removal is given
InsideSpans ==
    remove_outside_spans(SpansWithEquationBlocks(pg_in.pmi, pg_in.formula_enabled),
                         pg_boxes.all_bboxes, pg_boxes.all_discarded_blocks)

\* C18: of two spans whose bboxes overlap above the fixed ratio the one of
\* lower score does not survive and is in the removed list; the removal splits
\* its input into survivors and removed, and a span no other span beats survives.
C18_LowerScoreOverlapDropped ==
    PageResolved =>
        LET r == remove_overlaps_low_confidence_spans(InsideSpans)
        IN  /\ \A a, b \in SeqToSet(InsideSpans) :
                  (IouAbove(a.bbox, b.bbox, LowConfOverlapPercent) /\ a.score > b.score) =>
                      /\ b \in SeqToSet(r.dropped)
                      /\ b \notin SeqToSet(r.spans)
                      /\ \A sp \in SeqToSet(pg_resolved) : sp.id # b.id
            /\ SeqToSet(r.spans) \cup SeqToSet(r.dropped) = SeqToSet(InsideSpans)
            /\ SeqToSet(r.spans) \cap SeqToSet(r.dropped) = {}
            /\ \A a \in SeqToSet(InsideSpans) :
                  (\A b \in SeqToSet(InsideSpans) :
                      b = a \/ ~IouAbove(a.bbox, b.bbox, LowConfOverlapPercent))
                      => a \in SeqToSet(r.spans)

\* one span inside the other with 95% of its area, scores 0.9 and 0.4
C18_Witness ==
    /\ PageProduced
    /\ \E a, b \in SeqToSet(InsideSpans) :
          /\ OverlapArea(a.bbox, b.bbox) = BboxArea(b.bbox)
          /\ BboxArea(b.bbox) * 100 = 95 * BboxArea(a.bbox)
          /\ a.score = 9000 /\ b.score = 4000
          /\ \E sp \in SeqToSet(pg_resolved) : sp.id = a.id
          /\ \A sp \in SeqToSet(pg_resolved) : sp.id # b.id

\* the spans each step of the span resolver removed
RemovedOutside ==
    SeqToSet(SpansWithEquationBlocks(pg_in.pmi, pg_in.formula_enabled))
        \ SeqToSet(InsideSpans)

RemovedByConfidence == SeqToSet(remove_overlaps_low_confidence_spans(InsideSpans).dropped)

RemovedBySpanOverlap ==
    SeqToSet(remove_overlaps_min_spans(
                 remove_overlaps_low_confidence_spans(InsideSpans).spans).dropped)

SpansHeld(filled) == UNION {SeqToSet(filled[i].spans) : i \in DOMAIN filled}

\* C19: a span removed by outside-removal, low-confidence overlap removal or
\* min-span overlap removal is not seen again: not in the list the later steps
\* work on, in no box, and in no line of any block of the returned PageInfo.
C19_RemovedSpansStayRemoved ==
    PageResolved =>
        \A d \in RemovedOutside \cup RemovedByConfidence \cup RemovedBySpanOverlap :
            /\ \A sp \in SeqToSet(pg_spans) \cup SeqToSet(pg_resolved) : sp.id # d.id
            /\ \A sp \in SpansHeld(pg_discarded) \cup SpansHeld(pg_blocks) : sp.id # d.id
            /\ PageProduced => \A sp \in PageSpans(pg_out) : sp.id # d.id

C19_Witness ==
    /\ PageProduced
    /\ RemovedBySpanOverlap # {}
    /\ PageSpans(pg_out) # {}

\* pdf_info as the sequential page loop of result_to_middle_json leaves it
SequentialPdfInfo ==
    [i \in DOMAIN model_list |->
        LET pmi == model_list[i]
            page_info == page_model_info_to_page_info(pmi, i - 1, ocr_enable,
                                                      formula_enabled)
        IN  IF page_info = NonePage
            THEN make_page_info_dict(<<>>, i - 1, IntOfTenths(pmi.size[1]),
                                     IntOfTenths(pmi.size[2]), <<>>)
            ELSE page_info]

C21_OnePageInfoPerPage ==
    /\ \A p \in DOMAIN pdf_info : pdf_info[p].page_idx = p - 1
    /\ Len(pdf_info) <= Len(model_list)
    /\ returned => Len(pdf_info) = Len(model_list)
    /\ pc \in {"ocr", "ocr_returned", "para_split", "merge_table",
               "title", "close", "done"} => Len(pdf_info) = Len(model_list)

C21_Witness ==
    /\ returned /\ Len(pdf_info) = 2
    /\ pdf_info[1].preproc_blocks = <<>> /\ model_list[1].discarded_blocks # <<>>
    /\ pdf_info[2].preproc_blocks # <<>> /\ pdf_info[2].page_idx = 1

\* the discard boxes the Box Preparer gives for page p
DiscardBoxIds(p) ==
    {b.id : b \in SeqToSet(PreparedBoxes(model_list[p], ocr_enable,
                                         formula_enabled).all_discarded_blocks)}

\* C22: discarded regions are retained: on every page, each discard box of the
\* Box Preparer is a block of that page's discarded_blocks, whatever the number
\* of content boxes of the page, none included.
C22_DiscardBoxesRetained ==
    \A p \in DOMAIN pdf_info :
        DiscardBoxIds(p) \subseteq BlockIds(pdf_info[p].discarded_blocks)

\* the span object id is held by some entry of filled
HeldBy(id, filled) ==
    \E i \in DOMAIN filled : \E k \in DOMAIN filled[i].spans : filled[i].spans[k].id = id

\* C23: content boxes have priority over discard boxes in span assignment: a
\* span whose containment ratio against some content box is at least 0.5 is
\* in a content box, and a span is in a discard box only when it qualifies at
\* no content box and at some discard box (ratio at least 0.4).
C23_ContentBoxesHavePriority ==
    (pg_pc = "fix" \/ PageProduced) =>
        \A sp \in SeqToSet(pg_resolved) :
            LET dboxes == pg_boxes.all_discarded_blocks
                cboxes == pg_boxes.all_bboxes
                dq == {i \in DOMAIN dboxes : QualifiesAt(sp, dboxes[i], 4)}
                cq == {i \in DOMAIN cboxes : QualifiesAt(sp, cboxes[i], 5)}
            IN  /\ cq # {} => HeldBy(sp.id, pg_blocks)
                /\ HeldBy(sp.id, pg_discarded) => (cq = {} /\ dq # {})

\* where the span object ref sits in the document: <<page, 0 for preproc_blocks
\* and 1 for discarded_blocks, block, 0 or sub-block, line, span>>
DocPositions(pdf, ref) ==
    LET p == ref[1]
        inLines(lines, sec, i, j) ==
            UNION {{<<p, sec, i, j, l, k>> :
                       k \in {k \in DOMAIN lines[l].spans : lines[l].spans[k].id = ref[2]}} :
                   l \in DOMAIN lines}
        inBlocks(blocks, sec) ==
            UNION {inLines(blocks[i].lines, sec, i, 0)
                   \cup UNION {inLines(blocks[i].blocks[j].lines, sec, i, j) :
                                  j \in DOMAIN blocks[i].blocks} :
                   i \in DOMAIN blocks}
    IN  inBlocks(pdf[p].preproc_blocks, 0) \cup inBlocks(pdf[p].discarded_blocks, 1)

DocOrderLess(a, b) ==
    \E n \in 1..6 : a[n] < b[n] /\ \A m \in 1..(n - 1) : a[m] = b[m]

\* C24: the deferred OCR batch is in document order (page; reading-order
\* blocks with their caption and footnote sub-blocks, then discarded blocks;
\* line by line, span by span), crop i is the crop of span i of the batch, and
\* result i is written to that span, so no span gets the text recognized for
\* the crop of another span.
C24_BatchOrderedAndWrittenBackByIndex ==
    /\ (pc \in {"ocr", "ocr_returned"} \/ ocr_calls > 0) =>
          /\ Len(img_crop_list) = Len(need_ocr_list)
          /\ \A i \in DOMAIN need_ocr_list :
                /\ DocPositions(pdf_before_ocr, need_ocr_list[i]) # {}
                /\ \A sp \in SpansAt(pdf_before_ocr, need_ocr_list[i]) :
                      sp.np_img = img_crop_list[i]
          /\ \A i, j \in DOMAIN need_ocr_list :
                i < j => \A a \in DocPositions(pdf_before_ocr, need_ocr_list[i]),
                            b \in DocPositions(pdf_before_ocr, need_ocr_list[j]) :
                                DocOrderLess(a, b)
    /\ (pc = "para_split" /\ ocr_calls > 0) =>
          /\ \A i \in DOMAIN need_ocr_list :
                \A sp \in SpansAt(pdf_info, need_ocr_list[i]) :
                    sp.content = IF ocr_res_list[i][2] > min_confidence
                                 THEN ocr_res_list[i][1] ELSE ""
          /\ \A p \in DOMAIN pdf_info :
                \A sp \in PageSpans(pdf_info[p]) :
                    <<p, sp.id>> \notin SeqToSet(need_ocr_list)
                        => sp \in PageSpans(pdf_before_ocr[p])

\* two pages, crops from a text block and from a discarded block, and the
\* service answers the crops differently
C24_Witness ==
    /\ pc = "para_split" /\ ocr_calls = 1 /\ Len(need_ocr_list) >= 3
    /\ need_ocr_list[1][1] # need_ocr_list[Len(need_ocr_list)][1]
    /\ \E i \in DOMAIN need_ocr_list :
          \E a \in DocPositions(pdf_before_ocr, need_ocr_list[i]) : a[2] = 1
    /\ ocr_res_list[1][2] > min_confidence /\ ocr_res_list[2][2] < min_confidence
    /\ \E sp \in SpansAt(pdf_info, need_ocr_list[1]) : sp.content = "hi"
    /\ \E sp \in SpansAt(pdf_info, need_ocr_list[2]) : sp.content = ""

\* C25: every line-assigned span that is pending recognition is dispatched:
\* in the returned document no span of any line of any block or sub-block, of
\* any block type, in preproc_blocks or discarded_blocks, carries a pending
\* crop.
C25_NoPendingCropReturned ==
    returned =>
        \A p \in DOMAIN pdf_info :
            \A sp \in PageSpans(pdf_info[p]) : sp.np_img = NoImg

\* how far result_to_middle_json has come
StageRank(at) ==
    CASE at = "pages" -> 0
      [] at = "ocr" -> 1
      [] at = "ocr_returned" -> 2
      [] at = "para_split" -> 3
      [] at = "merge_table" -> 4
      [] at = "title" -> 5
      [] at = "close" -> 6
      [] OTHER -> 7

IsPrefix(s, t) == Len(s) <= Len(t) /\ s = SubSeq(t, 1, Len(s))

\* C26: the document-level stages run strictly forward and each at most once:
\* paragraph splitting starts only after every OCR result has been written
\* back, table merging only after paragraph splitting, the optional title
\* correction only after table merging, the document is closed only after all
\* of them, and no earlier stage is entered again.
C26_StagesRunForwardOnce ==
    /\ [](/\ \/ IsPrefix(stages, <<"para_split", "merge_table", "llm_aided_title", "close">>)
             \/ IsPrefix(stages, <<"para_split", "merge_table", "close">>)
          /\ stages # <<>> => StageRank(pc) >= 4
          /\ returned => stages[Len(stages)] = "close")
    /\ [][/\ StageRank(pc') >= StageRank(pc)
          /\ stages' # stages =>
                /\ StageRank(pc') > StageRank(pc)
                /\ Len(stages') = Len(stages) + 1
          /\ (stages = <<>> /\ stages' # <<>>) =>
                /\ pc = "para_split"
                /\ Len(pdf_info) = Len(model_list)
                /\ pdf_info = IF need_ocr_list = <<>> THEN pdf_before_ocr
                              ELSE ApplyOcr(PopCollected(pdf_before_ocr), need_ocr_list,
                                            ocr_res_list)]_vars

C26_Witness ==
    /\ pc = "done" /\ returned /\ ocr_calls = 1
    /\ stages = <<"para_split", "merge_table", "llm_aided_title", "close">>
    /\ \E i \in DOMAIN need_ocr_list : ocr_res_list[i][2] > min_confidence

\* how a run with the given flags classifies the image-like regions of the page:
\* the regions it makes text blocks, and those it makes image bodies
ImageLikeClasses(pmi, o, f) ==
    LET boxes == PreparedBoxes(pmi, o, f).all_bboxes
        like == {b.id : b \in SeqToSet(pmi.maybe_text_image_blocks)}
        ofType(t) == {boxes[i].id : i \in {k \in DOMAIN boxes : boxes[k].type = t}} \cap like
    IN  [text |-> ofType("text"), image_body |-> ofType("image_body")]

\* C27: region classification is a function of the detections, the spans and the
\* page size alone: a second run on the same page with the same detections and
\* spans, whatever its OCR-mode and formula flags, classifies every image-like
\* region (text or image body) as this run did.
C27_ClassificationIgnoresOcrMode ==
    pg_pc \notin {"prepare", "raised"} =>
        \A o, f \in BOOLEAN :
            ImageLikeClasses(pg_in.pmi, o, f)
                = ImageLikeClasses(pg_in.pmi, pg_in.ocr_enable, pg_in.formula_enabled)

\* C28: for 'rectangle' and 'bbox' coordinates the crop box (x, y, x+width,
\* y+height) of crop_region lies within the image and is not empty:
\* 0 <= x < x+width <= img_width and 0 <= y < y+height <= img_height, for every
\* coordinate value and every image of at least 1x1.
C28_CropBoxWithinImage ==
    (region_pc = "returned" /\ coordinates.type \in {"rectangle", "bbox"}
        /\ crop_box # NoBox) =>
        /\ 0 <= crop_box[1] /\ crop_box[1] < crop_box[3] /\ crop_box[3] <= image_size[1]
        /\ 0 <= crop_box[2] /\ crop_box[2] < crop_box[4] /\ crop_box[4] <= image_size[2]

\* the request is one of the client errors: no 'file' part, an empty file name,
\* or a file name whose suffix is not supported
ClientError(req) ==
    \/ ~req.has_file
    \/ req.filename.stem = "" /\ req.filename.ext = ""
    \/ req.filename.ext \notin {"pdf", "PDF", "png", "PNG", "jpeg", "jpg", "webp", "gif"}

\* C29: POST /process_pdf/ answers a client error with status 400, never 500,
\* and before any document processing starts, in both Flask applications.
C29_ClientErrorsAnswered400 ==
    (http_pc = "responded" /\ ClientError(http_request)) =>
        /\ http_status = 400
        /\ ~http_processed

\* C30: after crop_all_regions returned True every task is counted as processed
\* or as skipped and never as both: processed_tasks + skipped_tasks =
\* total_tasks, and cropped_regions + failed_crops = total_regions.
C30_CountersConsistent ==
    cropper_result = "True" =>
        /\ stats.processed_tasks + stats.skipped_tasks = stats.total_tasks
        /\ stats.cropped_regions + stats.failed_crops = stats.total_regions

Init == DocInit

Next == DocNext

Spec == Init /\ [][Next]_vars

====

